---- MODULE Spec2Model ----
(***************************************************************************)
(* Model of the ETRM trade server (supabase/functions/server/index.tsx):   *)
(* the CSV parser, the trade validator, the two collections kept in the    *)
(* key-value store and the request handlers that read and write them.      *)
(*                                                                         *)
(* A JavaScript string is a sequence of one-character strings.  A          *)
(* JavaScript value is a record [t, s, m, e]: t is its type tag, s its     *)
(* characters when it is a string, and m, e its decimal expansion          *)
(* m * 10^(-e) when it is a finite number.                                 *)
(***************************************************************************)
EXTENDS Integers, Sequences, FiniteSets, TLC

----------------------------------------------------------------------------
(* Characters and strings *)

Printable ==
    <<" ","!","\"","#","$","%","&","'","(",")","*","+",",","-",".","/",
      "0","1","2","3","4","5","6","7","8","9",":",";","<","=",">","?","@",
      "A","B","C","D","E","F","G","H","I","J","K","L","M","N","O","P","Q",
      "R","S","T","U","V","W","X","Y","Z","[","\\","]","^","_","<grave>",
      "a","b","c","d","e","f","g","h","i","j","k","l","m","n","o","p","q",
      "r","s","t","u","v","w","x","y","z","{","|","}","~">>

\* UTF-16 code unit of a character: printable ASCII and the three line
\* control characters.  (Position 65 of Printable stands for the grave
\* accent, code 96, which no input of the model contains.)
CharCode ==
    [c \in {Printable[i] : i \in 1..Len(Printable)} \cup {"\t", "\n", "\r"} |->
        IF c = "\t" THEN 9
        ELSE IF c = "\n" THEN 10
        ELSE IF c = "\r" THEN 13
        ELSE 31 + (CHOOSE i \in 1..Len(Printable) : Printable[i] = c)]

FromCharCode(n) == Printable[n - 31]

IsSpace(c) == c \in {" ", "\t", "\n", "\r"}

IsDigit(c) == c \in {"0","1","2","3","4","5","6","7","8","9"}

DigitVal(c) == CharCode[c] - 48

upperChar(c) ==
    IF CharCode[c] >= 97 /\ CharCode[c] <= 122 THEN FromCharCode(CharCode[c] - 32) ELSE c

lowerChar(c) ==
    IF CharCode[c] >= 65 /\ CharCode[c] <= 90 THEN FromCharCode(CharCode[c] + 32) ELSE c

\* const v = e; F(v): the value e is computed once and bound to the name.
With(e, F(_)) == CHOOSE y \in {F(v) : v \in {e}} : TRUE

\* String.prototype.toUpperCase / toLowerCase
toUpperCase(s) == [i \in 1..Len(s) |-> upperChar(s[i])]

toLowerCase(s) == [i \in 1..Len(s) |-> lowerChar(s[i])]

RECURSIVE skipSpaces(_, _)
skipSpaces(s, i) ==
    IF i <= Len(s) /\ IsSpace(s[i]) THEN skipSpaces(s, i + 1) ELSE i

RECURSIVE skipSpacesBack(_, _)
skipSpacesBack(s, i) ==
    IF i >= 1 /\ IsSpace(s[i]) THEN skipSpacesBack(s, i - 1) ELSE i

\* String.prototype.trim
trim(s) == SubSeq(s, skipSpaces(s, 1), skipSpacesBack(s, Len(s)))

\* String.prototype.split(sep) for a one-character separator
split(s, sep) ==
    LET at == SelectSeq([i \in 1..Len(s) |-> i], LAMBDA i : s[i] = sep)
    IN  [k \in 1..(Len(at) + 1) |->
            SubSeq(s, IF k = 1 THEN 1 ELSE at[k - 1] + 1,
                      IF k > Len(at) THEN Len(s) ELSE at[k] - 1)]

\* String.prototype.includes
includes(s, sub) ==
    \E i \in 0..(Len(s) - Len(sub)) : SubSeq(s, i + 1, i + Len(sub)) = sub

\* First index at which two sequences of integers differ, 0 when one is a
\* prefix of the other.
RECURSIVE firstDiff(_, _, _)
firstDiff(a, b, i) ==
    IF i > Len(a) \/ i > Len(b) THEN 0
    ELSE IF a[i] # b[i] THEN i
    ELSE firstDiff(a, b, i + 1)

\* -1, 0, 1: lexicographic comparison of two sequences of integers
cmpSeq(a, b) ==
    With(firstDiff(a, b, 1), LAMBDA d :
        IF d = 0
        THEN (IF Len(a) < Len(b) THEN -1 ELSE IF Len(a) > Len(b) THEN 1 ELSE 0)
        ELSE (IF a[d] < b[d] THEN -1 ELSE 1))

codeUnits(s) == [i \in 1..Len(s) |-> CharCode[s[i]]]

\* The relational operators on two strings compare code units.
strLE(a, b) == cmpSeq(codeUnits(a), codeUnits(b)) <= 0

strGE(a, b) == cmpSeq(codeUnits(a), codeUnits(b)) >= 0

\* Collation weights of String.prototype.localeCompare in the default (root)
\* locale, for ASCII: punctuation and space before digits before letters,
\* letters alphabetical regardless of case; at equal primary weights a
\* lower-case letter comes before its upper-case.
primaryWeight(c) ==
    IF IsDigit(c) THEN 200 + DigitVal(c)
    ELSE IF CharCode[lowerChar(c)] >= 97 /\ CharCode[lowerChar(c)] <= 122
         THEN 300 + CharCode[lowerChar(c)]
    ELSE CharCode[c]

tertiaryWeight(c) == IF CharCode[c] >= 65 /\ CharCode[c] <= 90 THEN 1 ELSE 0

localeCompare(a, b) ==
    With(cmpSeq([i \in 1..Len(a) |-> primaryWeight(a[i])],
                [i \in 1..Len(b) |-> primaryWeight(b[i])]), LAMBDA p :
        IF p # 0 THEN p
        ELSE cmpSeq([i \in 1..Len(a) |-> tertiaryWeight(a[i])],
                    [i \in 1..Len(b) |-> tertiaryWeight(b[i])]))

----------------------------------------------------------------------------
(* JavaScript values *)

Undefined == [t |-> "undefined", s |-> <<>>, m |-> 0, e |-> 0]

Str(chars) == [t |-> "string", s |-> chars, m |-> 0, e |-> 0]

NaN == [t |-> "NaN", s |-> <<>>, m |-> 0, e |-> 0]

Infinity(sign) == [t |-> "Infinity", s |-> <<>>, m |-> sign, e |-> 0]

RECURSIVE pow10(_)
pow10(n) == IF n <= 0 THEN 1 ELSE 10 * pow10(n - 1)

\* The finite number m * 10^(-e), in lowest terms of e.
RECURSIVE Num(_, _)
Num(m, e) ==
    IF m = 0 THEN [t |-> "number", s |-> <<>>, m |-> 0, e |-> 0]
    ELSE IF e < 0 THEN Num(m * pow10(0 - e), 0)
    ELSE IF e > 0 /\ m % 10 = 0 THEN Num(m \div 10, e - 1)
    ELSE [t |-> "number", s |-> <<>>, m |-> m, e |-> e]

\* ToBoolean
truthy(v) ==
    CASE v.t = "undefined" -> FALSE
      [] v.t = "string" -> v.s # <<>>
      [] v.t = "NaN" -> FALSE
      [] v.t = "number" -> v.m # 0
      [] OTHER -> TRUE

isNaN(v) == v.t = "NaN"

\* a || b
orElse(a, b) == IF truthy(a) THEN a ELSE b

RECURSIVE digitRun(_, _)
digitRun(s, i) ==
    IF i <= Len(s) /\ IsDigit(s[i]) THEN digitRun(s, i + 1) ELSE i

RECURSIVE digitsValue(_, _, _)
digitsValue(s, from, to) ==
    IF to < from THEN 0
    ELSE 10 * digitsValue(s, from, to - 1) + DigitVal(s[to])

hasAt(s, i, word) ==
    i + Len(word) - 1 <= Len(s) /\ SubSeq(s, i, i + Len(word) - 1) = word

\* parseInt(string) with no radix, decimal input: leading white space, an
\* optional sign, then the longest run of digits; NaN when there is none.
signAt(s, i) == IF i <= Len(s) /\ s[i] = "-" THEN -1 ELSE 1

afterSign(s, i) == IF i <= Len(s) /\ s[i] \in {"+", "-"} THEN i + 1 ELSE i

parseIntChars(s) ==
    With(skipSpaces(s, 1), LAMBDA i0 :
    With(afterSign(s, i0), LAMBDA i1 :
    With(digitRun(s, i1), LAMBDA i2 :
        IF i2 = i1 THEN NaN
        ELSE Num(signAt(s, i0) * digitsValue(s, i1, i2 - 1), 0))))

\* parseFloat(string): leading white space, an optional sign, then Infinity or
\* the longest prefix digits[.digits][e[sign]digits]; NaN when there is none.
parseFloatChars(s) ==
    With(skipSpaces(s, 1), LAMBDA i0 :
    With(afterSign(s, i0), LAMBDA i1 :
    With(digitRun(s, i1), LAMBDA i2 :
    With(i2 <= Len(s) /\ s[i2] = ".", LAMBDA dot :
    With(IF dot THEN digitRun(s, i2 + 1) ELSE i2, LAMBDA i3 :
    With(IF dot THEN i3 - (i2 + 1) ELSE 0, LAMBDA nFrac :
    With(i3 <= Len(s) /\ s[i3] \in {"e", "E"}, LAMBDA hasE :
    With(IF hasE THEN afterSign(s, i3 + 1) ELSE i3 + 1, LAMBDA i4 :
    With(IF hasE THEN digitRun(s, i4) ELSE i4, LAMBDA i5 :
    With(IF hasE /\ i5 > i4
         THEN signAt(s, i3 + 1) * digitsValue(s, i4, i5 - 1)
         ELSE 0, LAMBDA exp :
    With(digitsValue(s, i1, i2 - 1) * pow10(nFrac)
         + (IF nFrac > 0 THEN digitsValue(s, i2 + 1, i3 - 1) ELSE 0), LAMBDA mant :
        IF hasAt(s, i1, <<"I","n","f","i","n","i","t","y">>)
        THEN Infinity(signAt(s, i0))
        ELSE IF (i2 - i1) + nFrac = 0 THEN NaN
        ELSE Num(signAt(s, i0) * mant, nFrac - exp))))))))))))

\* parseInt / parseFloat of any value: the argument is first converted to a
\* string, which for a number reads back as the number itself (a non-integer
\* number is never passed to parseInt here).
parseInt(v) ==
    CASE v.t = "string" -> parseIntChars(v.s)
      [] v.t = "number" -> v
      [] OTHER -> NaN

parseFloat(v) ==
    CASE v.t = "string" -> parseFloatChars(v.s)
      [] v.t \in {"number", "Infinity"} -> v
      [] OTHER -> NaN

\* The arithmetic operators on numbers.  Every finite number of the model is
\* a decimal fraction of few digits that binary floating point holds exactly,
\* as are the sums, differences and products taken of them, so the finite
\* cases are computed exactly; the sign of a zero is not kept.
negate(a) ==
    CASE a.t = "number" -> Num(0 - a.m, a.e)
      [] a.t = "Infinity" -> Infinity(0 - a.m)
      [] OTHER -> NaN

\* a + b
plus(a, b) ==
    CASE a.t = "NaN" \/ b.t = "NaN" -> NaN
      [] a.t = "Infinity" /\ b.t = "Infinity" -> (IF a.m = b.m THEN a ELSE NaN)
      [] a.t = "Infinity" -> a
      [] b.t = "Infinity" -> b
      [] OTHER ->
            With(IF a.e > b.e THEN a.e ELSE b.e, LAMBDA e :
                Num(a.m * pow10(e - a.e) + b.m * pow10(e - b.e), e))

\* a - b
minus(a, b) == plus(a, negate(b))

signOf(a) == IF a.m > 0 THEN 1 ELSE IF a.m < 0 THEN -1 ELSE 0

\* a * b
times(a, b) ==
    CASE a.t = "NaN" \/ b.t = "NaN" -> NaN
      [] a.t = "Infinity" \/ b.t = "Infinity" ->
            (IF signOf(a) * signOf(b) = 0 THEN NaN ELSE Infinity(signOf(a) * signOf(b)))
      [] OTHER -> Num(a.m * b.m, a.e + b.e)

\* Days from 1970-01-01 to the given day of the civil calendar.
daysFromCivil(year, month, day) ==
    With(IF month <= 2 THEN year - 1 ELSE year, LAMBDA y :
    With(y % 400, LAMBDA yoe :
    With((153 * (IF month > 2 THEN month - 3 ELSE month + 9) + 2) \div 5 + day - 1,
         LAMBDA doy :
        (y \div 400) * 146097 + yoe * 365 + (yoe \div 4) - (yoe \div 100) + doy - 719468)))

\* The string has the form YYYY-MM-DD with a month 01..12 and a day 01..31.
isDateOnly(s) ==
    /\ Len(s) = 10
    /\ s[5] = "-" /\ s[8] = "-"
    /\ \A i \in {1, 2, 3, 4, 6, 7, 9, 10} : IsDigit(s[i])
    /\ digitsValue(s, 6, 7) \in 1..12
    /\ digitsValue(s, 9, 10) \in 1..31

\* new Date(v).getTime(), counted in days instead of milliseconds (only its
\* differences are used, and only their signs): midnight UTC of the day for a
\* string YYYY-MM-DD, NaN for undefined and for a string without any digit.
\* The model has no other date strings.
getTime(v) ==
    IF v.t = "string" /\ isDateOnly(v.s)
    THEN Num(daysFromCivil(digitsValue(v.s, 1, 4), digitsValue(v.s, 6, 7),
                           digitsValue(v.s, 9, 10)), 0)
    ELSE NaN

----------------------------------------------------------------------------
(* Field names and literals of the source, as strings *)

k_trade_id == <<"t","r","a","d","e","_","i","d">>

k_trade_date == <<"t","r","a","d","e","_","d","a","t","e">>

k_trader == <<"t","r","a","d","e","r">>

k_instrument == <<"i","n","s","t","r","u","m","e","n","t">>

k_side == <<"s","i","d","e">>

k_quantity == <<"q","u","a","n","t","i","t","y">>

k_trade_price == <<"t","r","a","d","e","_","p","r","i","c","e">>

k_currency == <<"c","u","r","r","e","n","c","y">>

k_price_date == <<"p","r","i","c","e","_","d","a","t","e">>

k_close_price == <<"c","l","o","s","e","_","p","r","i","c","e">>

s_Unknown == <<"U","n","k","n","o","w","n">>

s_USD == <<"U","S","D">>

s_BUY == <<"B","U","Y">>

s_SELL == <<"S","E","L","L">>

\* obj[key] of an object kept as a function from its keys: undefined for a
\* key the object does not have.
prop(obj, key) == IF key \in DOMAIN obj THEN obj[key] ELSE Undefined

----------------------------------------------------------------------------
(* parseCSV and validateTrade *)

maxOf(S) == CHOOSE x \in S : \A y \in S : y <= x

\* The object built by headers.forEach((header, index) => row[header] =
\* values[index]): a later column of the same name overwrites an earlier one,
\* a column past the end of the line is undefined.
rowObject(headers, values) ==
    [h \in {headers[i] : i \in 1..Len(headers)} |->
        LET index == maxOf({i \in 1..Len(headers) : headers[i] = h})
        IN  IF index <= Len(values) THEN Str(values[index]) ELSE Undefined]

splitTrim(line) ==
    With(split(line, ","), LAMBDA parts : [i \in 1..Len(parts) |-> trim(parts[i])])

\* A parseCSV that splits the text as it is given, without csvText.trim().
parseCSVUntrimmed(csvText) ==
    With(split(csvText, "\n"), LAMBDA lines :
        IF Len(lines) < 2 THEN <<>>
        ELSE With(splitTrim(lines[1]), LAMBDA headers :
                 [i \in 1..(Len(lines) - 1) |->
                     rowObject(headers, splitTrim(lines[i + 1]))]))

parseCSV(csvText) ==
    With(split(trim(csvText), "\n"), LAMBDA lines :
        IF Len(lines) < 2 THEN <<>>
        ELSE With(splitTrim(lines[1]), LAMBDA headers :
                 [i \in 1..(Len(lines) - 1) |->
                     rowObject(headers, splitTrim(lines[i + 1]))]))

\* The six rules of validateTrade, in the order the source applies them; each
\* is TRUE when the rule is violated.
idMissing(trade) == ~truthy(prop(trade, k_trade_id))

dateMissing(trade) == ~truthy(prop(trade, k_trade_date))

instrumentMissing(trade) == ~truthy(prop(trade, k_instrument))

sideInvalid(trade) ==
    \/ ~truthy(prop(trade, k_side))
    \/ toUpperCase(prop(trade, k_side).s) \notin {s_BUY, s_SELL}

quantityInvalid(trade) ==
    \/ ~truthy(prop(trade, k_quantity))
    \/ isNaN(parseFloat(prop(trade, k_quantity)))

priceInvalid(trade) ==
    \/ ~truthy(prop(trade, k_trade_price))
    \/ isNaN(parseFloat(prop(trade, k_trade_price)))

\* A faulty push that keeps the first error only.
pushFirst(cond, errors, msg) ==
    IF cond /\ errors = <<>> THEN Append(errors, msg) ELSE errors

\* if (cond) errors.push(msg)
pushIf(cond, errors, msg) == IF cond THEN Append(errors, msg) ELSE errors

validateTrade(trade) ==
    LET e1 == pushIf(idMissing(trade), <<>>, "trade_id is required")
        e2 == pushIf(dateMissing(trade), e1, "trade_date is required")
        e3 == pushIf(instrumentMissing(trade), e2, "instrument is required")
        e4 == pushIf(sideInvalid(trade), e3, "side must be BUY or SELL")
        e5 == pushIf(quantityInvalid(trade), e4, "quantity must be a valid number")
    IN  With(pushIf(priceInvalid(trade), e5, "trade_price must be a valid number"),
             LAMBDA errors : [valid |-> Len(errors) = 0, errors |-> errors])

\* A faulty newTrade that stores the fields as they were given.
newTradeAsGiven(row) ==
    [trade_id |-> prop(row, k_trade_id),
     trade_date |-> prop(row, k_trade_date),
     trader |-> prop(row, k_trader),
     instrument |-> prop(row, k_instrument),
     side |-> prop(row, k_side),
     quantity |-> prop(row, k_quantity),
     trade_price |-> prop(row, k_trade_price),
     currency |-> prop(row, k_currency)]

\* The trade object built from a row that passed validation.
newTrade(row) ==
    [trade_id |-> prop(row, k_trade_id),
     trade_date |-> prop(row, k_trade_date),
     trader |-> orElse(prop(row, k_trader), Str(s_Unknown)),
     instrument |-> prop(row, k_instrument),
     side |-> Str(toUpperCase(prop(row, k_side).s)),
     quantity |-> parseFloat(prop(row, k_quantity)),
     trade_price |-> parseFloat(prop(row, k_trade_price)),
     currency |-> orElse(prop(row, k_currency), Str(s_USD))]

\* A faulty loop that stops at the first row failing validation.
RECURSIVE partitionUntilInvalid(_, _, _, _)
partitionUntilInvalid(rows, i, validTrades, invalidTrades) ==
    IF i > Len(rows) THEN [validTrades |-> validTrades, invalidTrades |-> invalidTrades]
    ELSE With(validateTrade(rows[i]), LAMBDA validation :
             IF validation.valid
             THEN partitionUntilInvalid(rows, i + 1,
                                        Append(validTrades, newTrade(rows[i])),
                                        invalidTrades)
             ELSE [validTrades |-> validTrades,
                   invalidTrades |-> Append(invalidTrades,
                                            [row |-> rows[i],
                                             errors |-> validation.errors])])

\* A faulty loop that takes every row for a valid one.
partitionWithoutValidation(rows, i, validTrades, invalidTrades) ==
    [validTrades |-> validTrades \o [k \in 1..(Len(rows) - i + 1) |-> newTrade(rows[k + i - 1])],
     invalidTrades |-> invalidTrades]

\* The loop over the parsed rows: validTrades and invalidTrades, each in row
\* order.
RECURSIVE partitionRows(_, _, _, _)
partitionRows(rows, i, validTrades, invalidTrades) ==
    IF i > Len(rows) THEN [validTrades |-> validTrades, invalidTrades |-> invalidTrades]
    ELSE With(validateTrade(rows[i]), LAMBDA validation :
             partitionRows(rows, i + 1,
                 IF validation.valid
                 THEN Append(validTrades, newTrade(rows[i]))
                 ELSE validTrades,
                 IF validation.valid
                 THEN invalidTrades
                 ELSE Append(invalidTrades,
                             [row |-> rows[i], errors |-> validation.errors])))

\* Array.prototype.slice(start, end) on integers
relativeIndex(k, len) ==
    IF k < 0 THEN (IF len + k < 0 THEN 0 ELSE len + k)
    ELSE (IF k > len THEN len ELSE k)

\* A faulty slice that goes on to the end of the array.
sliceToEnd(arr, start, end) == SubSeq(arr, relativeIndex(start, Len(arr)) + 1, Len(arr))

slice(arr, start, end) ==
    SubSeq(arr, relativeIndex(start, Len(arr)) + 1, relativeIndex(end, Len(arr)))

\* How many invalid rows the upload response carries (invalidTrades.slice(0, 10)).
InvalidShown == 10

\* A faulty allTrades that drops what was stored.
allTradesReplacing(existingTrades, validTrades) == validTrades

\* [...existingTrades, ...validTrades]
allTrades(existingTrades, validTrades) == existingTrades \o validTrades

----------------------------------------------------------------------------
(* The key-value store (kv_store.tsx): get(key) gives the stored value or   *)
(* nothing, set(key, value) replaces it.                                    *)
(*                                                                          *)
(* kv is the store, last the response to the request served last, and       *)
(* requests the requests that are served side by side, each with the store  *)
(* call it waits for (none when one request is served at a time).           *)

VARIABLES kv, last, requests

vars == <<kv, last, requests>>

Absent == [present |-> FALSE, rows |-> <<>>]

kvGet(store, key) == store[key]

kvSet(store, key, value) == [store EXCEPT ![key] = [present |-> TRUE, rows |-> value]]

\* (await kv.get(key)) || []
orEmpty(got) == IF got.present THEN got.rows ELSE <<>>

----------------------------------------------------------------------------
(* GET /trades: filters, sort, pagination *)

keepFrom(trades, fromDate) ==
    IF truthy(fromDate)
    THEN SelectSeq(trades, LAMBDA t : strGE(t.trade_date.s, fromDate.s))
    ELSE trades

\* A faulty keepTo that leaves out the trades of the date itself.
keepBefore(trades, toDate) ==
    IF truthy(toDate)
    THEN SelectSeq(trades, LAMBDA t : strLE(t.trade_date.s, toDate.s)
                                      /\ t.trade_date.s # toDate.s)
    ELSE trades

keepTo(trades, toDate) ==
    IF truthy(toDate)
    THEN SelectSeq(trades, LAMBDA t : strLE(t.trade_date.s, toDate.s))
    ELSE trades

keepInstrument(trades, instrument) ==
    IF truthy(instrument)
    THEN SelectSeq(trades, LAMBDA t :
             includes(toLowerCase(t.instrument.s), toLowerCase(instrument.s)))
    ELSE trades

keepTrader(trades, trader) ==
    IF truthy(trader)
    THEN SelectSeq(trades, LAMBDA t :
             includes(toLowerCase(t.trader.s), toLowerCase(trader.s)))
    ELSE trades

filterTrades(trades, q) ==
    keepTrader(keepInstrument(keepTo(keepFrom(trades, q.from), q.to), q.instrument),
               q.trader)

\* parseInt(trade_id.replace(/\D/g, ''))
idNumber(trade) == parseIntChars(SelectSeq(trade.trade_id.s, IsDigit))

\* A faulty comparator that always compares the full trade_ids.
compareLexical(a, b) == localeCompare(a.trade_id.s, b.trade_id.s)

\* The comparator handed to sort: negative, zero or positive.
compareTrades(a, b) ==
    With(idNumber(a), LAMBDA aNum :
    With(idNumber(b), LAMBDA bNum :
        IF ~isNaN(aNum) /\ ~isNaN(bNum) THEN aNum.m - bNum.m
        ELSE localeCompare(a.trade_id.s, b.trade_id.s)))

\* The comparison of two price rows in sort((a, b) => new Date(b.price_date)
\* .getTime() - new Date(a.price_date).getTime()): latest first.
comparePrices(a, b) == minus(getTime(b.price_date), getTime(a.price_date))

\* The comparison of two dailyPnL entries in sort((a, b) => new Date(a.date)
\* .getTime() - new Date(b.date).getTime()): earliest first.
compareEntries(a, b) == minus(getTime(a.date), getTime(b.date))

\* What sort makes of the value its comparator returns: NaN counts as 0.
orderOf(v) == IF isNaN(v) THEN 0 ELSE v.m

\* The comparator of each sort of the source, named by the field it sorts by.
comparefn(by, a, b) ==
    CASE by = "trade_id" -> compareTrades(a, b)
      [] by = "price_date" -> orderOf(comparePrices(a, b))
      [] by = "date" -> orderOf(compareEntries(a, b))

\* Array.prototype.sort as the runtime (V8) performs it on an array shorter
\* than 64 elements: the leading run is found (and reversed when strictly
\* descending), then every later element is placed by binary insertion.
RECURSIVE runEnd(_, _, _, _)
runEnd(arr, by, isDescending, idx) ==
    IF idx > Len(arr) THEN idx - 1
    ELSE With(comparefn(by, arr[idx], arr[idx - 1]), LAMBDA order :
             IF (isDescending /\ order >= 0) \/ (~isDescending /\ order < 0)
             THEN idx - 1
             ELSE runEnd(arr, by, isDescending, idx + 1))

reverseRange(arr, n) ==
    [i \in 1..Len(arr) |-> IF i <= n THEN arr[n + 1 - i] ELSE arr[i]]

RECURSIVE insertionPoint(_, _, _, _, _)
insertionPoint(arr, by, pivot, left, right) ==
    IF left >= right THEN left
    ELSE LET mid == left + ((right - left) \div 2)
         IN  IF comparefn(by, pivot, arr[mid]) < 0
             THEN insertionPoint(arr, by, pivot, left, mid)
             ELSE insertionPoint(arr, by, pivot, mid + 1, right)

RECURSIVE binaryInsertionSort(_, _, _)
binaryInsertionSort(arr, by, start) ==
    IF start > Len(arr) THEN arr
    ELSE With(insertionPoint(arr, by, arr[start], 1, start), LAMBDA left :
         With([i \in 1..Len(arr) |->
                  IF i < left \/ i > start THEN arr[i]
                  ELSE IF i = left THEN arr[start]
                  ELSE arr[i - 1]], LAMBDA moved :
             binaryInsertionSort(moved, by, start + 1)))

sort(arr, by) ==
    IF Len(arr) < 2 THEN arr
    ELSE With(comparefn(by, arr[2], arr[1]) < 0, LAMBDA isDescending :
         With(runEnd(arr, by, isDescending, 3), LAMBDA runLength :
             binaryInsertionSort(IF isDescending THEN reverseRange(arr, runLength)
                                 ELSE arr,
                                 by, runLength + 1)))

\* trades.sort(...) of GET /trades
sortTrades(arr) == sort(arr, "trade_id")

s_1 == <<"1">>

\* The default page size, limit = parseInt(query('limit') || '50')
s_50 == <<"5","0">>

\* A faulty ceilDiv that rounds down.
floorDiv(total, limit) == total \div limit

\* Math.ceil(total / limit) for total >= 0 and limit >= 1
ceilDiv(total, limit) == (total + limit - 1) \div limit

\* A faulty pageOf that takes the first page to be page 0.
pageOfCountingFromZero(trades, q) ==
    With(parseInt(orElse(q.page, Str(s_1))).m, LAMBDA page :
    With(parseInt(orElse(q.limit, Str(s_50))).m, LAMBDA limit :
        LET total == Len(trades)
            start == page * limit
            end == start + limit
        IN  [trades |-> slice(trades, start, end),
             pagination |-> [page |-> page, limit |-> limit, total |-> total,
                             totalPages |-> ceilDiv(total, limit)]]))

\* The page of the sorted, filtered trades the query asks for, and the
\* pagination record.  page and limit are decimal digit strings (or absent) in
\* every query of the model.
pageOf(trades, q) ==
    With(parseInt(orElse(q.page, Str(s_1))).m, LAMBDA page :
    With(parseInt(orElse(q.limit, Str(s_50))).m, LAMBDA limit :
        LET total == Len(trades)
            start == (page - 1) * limit
            end == start + limit
        IN  [trades |-> slice(trades, start, end),
             pagination |-> [page |-> page, limit |-> limit, total |-> total,
                             totalPages |-> ceilDiv(total, limit)]]))

\* The response body of GET /trades for the trades read from the store
listTrades(stored, q) == pageOf(sortTrades(filterTrades(stored, q)), q)

\* A faulty newPrices that leaves out the rows whose close price is no number.
newPricesNumeric(rows) ==
    With(SelectSeq(rows, LAMBDA row : ~isNaN(parseFloat(prop(row, k_close_price)))),
         LAMBDA kept :
             [i \in 1..Len(kept) |->
                 [instrument |-> prop(kept[i], k_instrument),
                  price_date |-> prop(kept[i], k_price_date),
                  close_price |-> parseFloat(prop(kept[i], k_close_price))]])

\* rows.map(row => ({instrument, price_date, close_price: parseFloat(...)}))
newPrices(rows) ==
    [i \in 1..Len(rows) |->
        [instrument |-> prop(rows[i], k_instrument),
         price_date |-> prop(rows[i], k_price_date),
         close_price |-> parseFloat(prop(rows[i], k_close_price))]]

----------------------------------------------------------------------------
(* GET /pnl: filters, latest price, MtM, totals *)

\* An instrument filter that keeps the instruments which contain the given
\* one, as GET /trades does.
keepInstrumentContaining(trades, instrument) == keepInstrument(trades, instrument)

keepInstrumentExact(trades, instrument) ==
    IF truthy(instrument)
    THEN SelectSeq(trades, LAMBDA t : t.instrument = instrument)
    ELSE trades

filteredTrades(trades, q) ==
    keepInstrumentExact(keepTo(keepFrom(trades, q.from), q.to), q.instrument)

\* A price filter that takes instruments for equal when they differ in case.
instrumentPricesAnyCase(marketPrices, trade) ==
    sort(SelectSeq(marketPrices,
                   LAMBDA p : p.instrument.t = "string"
                              /\ toLowerCase(p.instrument.s) = toLowerCase(trade.instrument.s)),
         "price_date")

\* marketPrices.filter(p => p.instrument === trade.instrument).sort(...)
instrumentPrices(marketPrices, trade) ==
    sort(SelectSeq(marketPrices, LAMBDA p : p.instrument = trade.instrument),
         "price_date")

\* A valuation with a direction: the difference is taken the other way round
\* for a SELL trade.
mtmDirected(trade, marketPrice) ==
    IF trade.side = Str(s_SELL)
    THEN times(minus(parseFloat(trade.trade_price), marketPrice), parseFloat(trade.quantity))
    ELSE times(minus(marketPrice, parseFloat(trade.trade_price)), parseFloat(trade.quantity))

\* (marketPrice - tradePrice) * quantity
mtmOf(trade, marketPrice) ==
    times(minus(marketPrice, parseFloat(trade.trade_price)), parseFloat(trade.quantity))

\* {...trade, market_price: marketPrice, mtm: mtm} for a trade of the eight
\* stored fields
valuedTrade(trade, marketPrice, mtm) ==
    [trade_id |-> trade.trade_id, trade_date |-> trade.trade_date,
     trader |-> trade.trader, instrument |-> trade.instrument, side |-> trade.side,
     quantity |-> trade.quantity, trade_price |-> trade.trade_price,
     currency |-> trade.currency, market_price |-> marketPrice, mtm |-> mtm]

\* dailyPnL[date] = (dailyPnL[date] || 0) + mtm, the object being kept as the
\* sequence of its entries in the order the keys were first set (no
\* trade_date of the model is an array index, which would come first).
addDaily(dailyPnL, date, mtm) ==
    IF \E i \in 1..Len(dailyPnL) : dailyPnL[i].date = date
    THEN [i \in 1..Len(dailyPnL) |->
             IF dailyPnL[i].date = date
             THEN [date |-> date, pnl |-> plus(orElse(dailyPnL[i].pnl, Num(0, 0)), mtm)]
             ELSE dailyPnL[i]]
    ELSE Append(dailyPnL, [date |-> date, pnl |-> plus(Num(0, 0), mtm)])

\* The loop over the filtered trades: totalPnL, dailyPnL and tradesPnL after
\* the trades from the i-th on have been valued.
RECURSIVE valueTrades(_, _, _, _)
valueTrades(trades, marketPrices, i, acc) ==
    IF i > Len(trades) THEN acc
    ELSE With(instrumentPrices(marketPrices, trades[i]), LAMBDA prices :
             IF Len(prices) = 0
             THEN valueTrades(trades, marketPrices, i + 1, acc)
             ELSE With(parseFloat(prices[1].close_price), LAMBDA marketPrice :
                  With(mtmOf(trades[i], marketPrice), LAMBDA mtm :
                      valueTrades(trades, marketPrices, i + 1,
                          [totalPnL |-> plus(acc.totalPnL, mtm),
                           dailyPnL |-> addDaily(acc.dailyPnL, trades[i].trade_date, mtm),
                           tradesPnL |-> Append(acc.tradesPnL,
                                                valuedTrade(trades[i], marketPrice, mtm))]))))

\* The response body of GET /pnl for the trades and prices read from the store
computePnL(trades, marketPrices, q) ==
    With(filteredTrades(trades, q), LAMBDA filtered :
    With(valueTrades(filtered, marketPrices, 1,
                     [totalPnL |-> Num(0, 0), dailyPnL |-> <<>>, tradesPnL |-> <<>>]),
         LAMBDA valued :
             [totalPnL |-> valued.totalPnL,
              dailyPnL |-> sort(valued.dailyPnL, "date"),
              tradeCount |-> Len(filtered),
              valuedTradeCount |-> Len(valued.tradesPnL),
              trades |-> valued.tradesPnL]))

----------------------------------------------------------------------------
(* GET /stats, GET /instruments, GET /traders *)

\* The values as they come, repeated ones included.
everyValue(values) == values

\* [...new Set(values)]: each value once, in the order of first occurrence
RECURSIVE unique(_)
unique(values) ==
    IF values = <<>> THEN <<>>
    ELSE With(unique(SubSeq(values, 1, Len(values) - 1)), LAMBDA before :
             IF \E i \in 1..Len(before) : before[i] = values[Len(values)]
             THEN before
             ELSE Append(before, values[Len(values)]))

listInstruments(trades) == unique([i \in 1..Len(trades) |-> trades[i].instrument])

listTraders(trades) == unique([i \in 1..Len(trades) |-> trades[i].trader])

\* trades.reduce((sum, t) => sum + parseFloat(t.quantity), 0)
RECURSIVE totalVolume(_)
totalVolume(trades) ==
    IF trades = <<>> THEN Num(0, 0)
    ELSE plus(totalVolume(SubSeq(trades, 1, Len(trades) - 1)),
              parseFloat(trades[Len(trades)].quantity))

\* trades.reduce((sum, t) => sum + parseFloat(t.quantity) * parseFloat(t.trade_price), 0)
RECURSIVE totalNotional(_)
totalNotional(trades) ==
    IF trades = <<>> THEN Num(0, 0)
    ELSE plus(totalNotional(SubSeq(trades, 1, Len(trades) - 1)),
              times(parseFloat(trades[Len(trades)].quantity),
                    parseFloat(trades[Len(trades)].trade_price)))

\* The response body of GET /stats
getStats(trades, marketPrices) ==
    [totalTrades |-> Len(trades),
     uniqueInstruments |-> Len(listInstruments(trades)),
     uniqueTraders |-> Len(listTraders(trades)),
     totalVolume |-> totalVolume(trades),
     totalNotional |-> totalNotional(trades),
     marketPricesCount |-> Len(marketPrices)]

----------------------------------------------------------------------------
(* Bounds and inputs *)

\* The trade collection holds at most this many trades.
MaxTrades == 2

\* The number of invalid rows of the long upload file.
ManyInvalid == 11

headerTrades ==
    <<"t","r","a","d","e","_","i","d",",","t","r","a","d","e","_","d","a","t","e",",",
      "t","r","a","d","e","r",",","i","n","s","t","r","u","m","e","n","t",",",
      "s","i","d","e",",","q","u","a","n","t","i","t","y",",",
      "t","r","a","d","e","_","p","r","i","c","e",",","c","u","r","r","e","n","c","y">>

\* Data lines of trade files: four that pass validation (a lower-case side, a
\* short line with an empty trader and padded fields, an id without digits, an
\* id whose digits equal another's) and two that do not.
tradeLines ==
    << <<"A","2",",","2","0","2","4","-","0","1","-","0","2",",","A","l",",","W","T","I",",","b","u","y",",","1","0",",","7",".","5",",","U","S","D">>,
       <<" ","Y","1"," ",",","2","0","2","4","-","0","1","-","0","1",",",",","B","r","e","n","t",",","S","E","L","L",",","5",",","8">>,
       <<"X",",","2","0","2","4","-","0","1","-","0","3",",","B","o",",","w","t","i",",","S","e","l","l",",","3",",","9",",","E","U","R">>,
       <<"T","2",",","2","0","2","4","-","0","1","-","0","2",",","A","l",",","W","T","I",",","B","U","Y",",","1",",","2",",","U","S","D">>,
       <<",","2","0","2","4","-","0","1","-","0","1",",","A","l",",","W","T","I",",","H","O","L","D",",","a","b","c",",","7",",","U","S","D">>,
       <<"T","9",",",",","A","l",",","W","T","I",",","B","U","Y",",","1",",","x">> >>

headerPrices ==
    <<"i","n","s","t","r","u","m","e","n","t",",","p","r","i","c","e","_","d","a","t","e",",",
      "c","l","o","s","e","_","p","r","i","c","e">>

priceLines ==
    << <<"W","T","I",",","2","0","2","4","-","0","1","-","0","5",",","7","6">>,
       <<"W","T","I",",","2","0","2","4","-","0","1","-","0","4",",","7","5",".","5">>,
       <<"B","r","e","n","t",",","2","0","2","4","-","0","1","-","0","5",",","x">> >>

\* The text of a file: the header line, then the chosen data lines.
RECURSIVE csvText(_, _, _)
csvText(header, lines, chosen) ==
    IF chosen = <<>> THEN header
    ELSE csvText(header, lines, SubSeq(chosen, 1, Len(chosen) - 1))
         \o <<"\n">> \o lines[chosen[Len(chosen)]]

\* The long file: ManyInvalid invalid lines, of the two kinds in turn, and a
\* valid line after them.
RECURSIVE invalidLines(_)
invalidLines(n) ==
    IF n = 0 THEN <<>>
    ELSE Append(invalidLines(n - 1), IF n % 2 = 1 THEN 5 ELSE 6)

longFile == Append(invalidLines(ManyInvalid), 3)

TradeFileLines ==
    { <<>>, <<1>>, <<2>>, <<3>>, <<4>>, <<5>>, <<5, 1>>, <<2, 6, 4>>, <<3, 1>>, longFile }

\* What the upload handlers find in body.file: nothing, or the text of a file
\* (empty, header only, or with data lines).
TradeFiles ==
    {Undefined, Str(<<>>)} \cup {Str(csvText(headerTrades, tradeLines, c)) : c \in TradeFileLines}

PriceFileLines == { <<>>, <<1, 2>>, <<3, 1>> }

PriceFiles ==
    {Undefined, Str(<<>>), Str(Append(headerPrices, "\n"))}
        \cup {Str(csvText(headerPrices, priceLines, c)) : c \in PriceFileLines}

\* JSON bodies of POST /trades: a trade with a numeric quantity, the same with
\* quantity 0, an empty object, and a trade that leaves fields out.
tradeBody(quantity) ==
    (k_trade_id :> Str(<<"T","2">>)) @@
    (k_trade_date :> Str(<<"2","0","2","4","-","0","1","-","0","2">>)) @@
    (k_trader :> Str(<<"A","l">>)) @@
    (k_instrument :> Str(<<"W","T","I">>)) @@
    (k_side :> Str(<<"b","u","y">>)) @@
    (k_quantity :> quantity) @@
    (k_trade_price :> Str(<<"2">>)) @@
    (k_currency :> Str(s_USD))

emptyBody == <<>>

\* A trade without trader and currency, its quantity a string and its price a
\* number.
bodyWithoutTrader ==
    (k_trade_id :> Str(<<"Y","1">>)) @@
    (k_trade_date :> Str(<<"2","0","2","4","-","0","1","-","0","1">>)) @@
    (k_instrument :> Str(<<"B","r","e","n","t">>)) @@
    (k_side :> Str(<<"s","e","l","l">>)) @@
    (k_quantity :> Str(<<"5">>)) @@
    (k_trade_price :> Num(8, 0))

TradeBodies == {tradeBody(Num(1, 0)), tradeBody(Num(0, 0)), emptyBody, bodyWithoutTrader}

query(from, to, instrument, trader, page, limit) ==
    [from |-> from, to |-> to, instrument |-> instrument, trader |-> trader,
     page |-> page, limit |-> limit]

d_0102 == Str(<<"2","0","2","4","-","0","1","-","0","2">>)

QueryFilters ==
    { <<Undefined, Undefined, Undefined, Undefined>>,
      <<d_0102, Undefined, Undefined, Undefined>>,
      <<Undefined, d_0102, Undefined, Undefined>>,
      <<d_0102, d_0102, Undefined, Undefined>>,
      <<Undefined, Undefined, Str(<<"w","t">>), Undefined>>,
      <<Undefined, Undefined, Undefined, Str(<<"A","L">>)>>,
      <<d_0102, Undefined, Str(<<"w","t">>), Str(<<"A","L">>)>> }

QueryPages ==
    { <<Undefined, Undefined>>,
      <<Str(<<"1">>), Str(<<"2">>)>>,
      <<Str(<<"2">>), Str(<<"2">>)>>,
      <<Str(<<"3">>), Str(<<"2">>)>>,
      <<Str(<<"2">>), Str(<<"1">>)>> }

\* Every filter with the default page, and every page of the unfiltered and of
\* the instrument-filtered list.
Queries ==
    { query(f[1], f[2], f[3], f[4], p[1], p[2]) :
        <<f, p>> \in { fp \in QueryFilters \X QueryPages :
                         \/ fp[2] = <<Undefined, Undefined>>
                         \/ (fp[1][1] = Undefined /\ fp[1][2] = Undefined
                             /\ fp[1][4] = Undefined) } }

\* The requests for a list that the store rejects are made with this query.
noQuery == query(Undefined, Undefined, Undefined, Undefined, Undefined, Undefined)

ListInputs == {in \in Queries \X (0..1) : in[2] = 0 \/ in[1] = noQuery}

s_WTI == <<"W","T","I">>

\* Queries of GET /pnl: no filter, each date bound, an instrument as stored,
\* one in another case, a part of one, an empty one, and all three filters.
PnLFilters ==
    { <<Undefined, Undefined, Undefined>>,
      <<d_0102, Undefined, Undefined>>,
      <<Undefined, d_0102, Undefined>>,
      <<Undefined, Undefined, Str(s_WTI)>>,
      <<Undefined, Undefined, Str(<<"w","t","i">>)>>,
      <<Undefined, Undefined, Str(<<"w","t">>)>>,
      <<Undefined, Undefined, Str(<<>>)>>,
      <<d_0102, d_0102, Str(s_WTI)>> }

PnLQueries ==
    { query(f[1], f[2], f[3], Undefined, Undefined, Undefined) : f \in PnLFilters }

\* The two of them that are asked of every store the uploads can build.
SomePnLQueries ==
    { q \in PnLQueries : q.from = Undefined /\ q.to = Undefined
                           /\ q.instrument \in {Undefined, Str(s_WTI)} }

\* Collections for GET /pnl.  Two more trade lines, which differ in their
\* side alone and have the date of the Brent trade; four more price lines: one
\* without a date, one of the date of the first line, one for the lower-case
\* instrument and one for Brent.
pnlTradeLines ==
    tradeLines \o
    << <<"B","7",",","2","0","2","4","-","0","1","-","0","1",",","C","y",",","W","T","I",",","B","U","Y",",","1","0","0","0",",","7","5",".","5","0",",","U","S","D">>,
       <<"B","7",",","2","0","2","4","-","0","1","-","0","1",",","C","y",",","W","T","I",",","S","E","L","L",",","1","0","0","0",",","7","5",".","5","0",",","U","S","D">> >>

pnlPriceLines ==
    priceLines \o
    << <<"W","T","I",",",",","7","0">>,
       <<"W","T","I",",","2","0","2","4","-","0","1","-","0","5",",","7","5",".","5">>,
       <<"w","t","i",",","2","0","2","4","-","0","1","-","0","6",",","8",".","5">>,
       <<"B","r","e","n","t",",","2","0","2","4","-","0","1","-","0","3",",","9">> >>

PnLTradeFileLines ==
    { <<7, 8>>, <<2, 7>>, <<7, 2>>, <<1, 3, 4>>, <<3, 1, 2, 8>>, <<1, 2, 3, 4>> }

PnLPriceFileLines ==
    { <<1, 2>>, <<2, 1>>, <<3, 1>>, <<1, 5>>, <<5, 1>>, <<4, 1>>, <<1, 4>>,
      <<2, 1, 6, 7>>, <<7, 6, 3, 2>> }

\* What the store holds after an upload of such a file into an empty store.
tradesUploaded(chosen) ==
    allTrades(<<>>, partitionRows(parseCSV(csvText(headerTrades, pnlTradeLines, chosen)),
                                  1, <<>>, <<>>).validTrades)

pricesUploaded(chosen) ==
    newPrices(parseCSV(csvText(headerPrices, pnlPriceLines, chosen)))


----------------------------------------------------------------------------
(* The handlers.  failAt is the store call of the request that rejects: 0   *)
(* when none does, 1 for the first call, 2 for the second.                  *)

response(op, req, status, body) ==
    [op |-> op, req |-> req, status |-> status, body |-> body]

Init ==
    /\ kv = [trades |-> Absent, market_prices |-> Absent]
    /\ last = response("none", Undefined, 0, [none |-> TRUE])
    /\ requests = <<>>

\* For each file of the model, the rows parseCSV gives for its text and the
\* two lists the upload loop builds from them.  They depend on the file alone,
\* so they are tabulated once, entry by entry, and the handlers look them up.
RECURSIVE parsedFiles(_)
parsedFiles(files) ==
    IF files = {} THEN <<>>
    ELSE With(CHOOSE file \in files : TRUE, LAMBDA file :
             (file :> parseCSV(file.s)) @@ parsedFiles(files \ {file}))

RECURSIVE partitionedFiles(_)
partitionedFiles(files) ==
    IF files = {} THEN <<>>
    ELSE With(CHOOSE file \in files : TRUE, LAMBDA file :
             (file :> partitionRows(parseCSV(file.s), 1, <<>>, <<>>))
                 @@ partitionedFiles(files \ {file}))

tradeFileRows == parsedFiles(TradeFiles)

tradeFileParts == partitionedFiles(TradeFiles)

priceFileRows == parsedFiles(PriceFiles)

\* POST /trades/upload: the store is read and then written (two calls) when
\* the file has a valid row, and not called otherwise.
UploadTrades(file, failAt) ==
    /\ failAt <= 2
    /\ UNCHANGED requests
    /\ IF file.t = "undefined"
       THEN /\ failAt = 0
            /\ last' = response("uploadTrades", file, 400, [error |-> "No file provided"])
            /\ UNCHANGED kv
       ELSE \E rows \in {tradeFileRows[file]} :
            IF Len(rows) = 0
            THEN /\ failAt = 0
                 /\ last' = response("uploadTrades", file, 400,
                                     [error |-> "CSV file is empty or invalid"])
                 /\ UNCHANGED kv
            ELSE \E parts \in {tradeFileParts[file]} :
                 LET validTrades == parts.validTrades
                     invalidTrades == parts.invalidTrades
                     existingTrades == orEmpty(kvGet(kv, "trades"))
                     summary == [success |-> TRUE,
                                 validCount |-> Len(validTrades),
                                 invalidCount |-> Len(invalidTrades),
                                 invalidTrades |-> slice(invalidTrades, 0, InvalidShown)]
                 IN  IF Len(validTrades) = 0
                     THEN /\ failAt = 0
                          /\ UNCHANGED kv
                          /\ last' = response("uploadTrades", file, 200, summary)
                     ELSE /\ Len(existingTrades) + Len(validTrades) <= MaxTrades
                          /\ IF failAt # 0
                             THEN /\ last' = response("uploadTrades", file, 500,
                                                      [error |-> "Failed to upload trades"])
                                  /\ UNCHANGED kv
                             ELSE /\ kv' = kvSet(kv, "trades",
                                                 allTrades(existingTrades, validTrades))
                                  /\ last' = response("uploadTrades", file, 200, summary)

\* A faulty POST /trades that puts the new trade in front.
CreateTradeInFront(trade, failAt) ==
    /\ failAt <= 2
    /\ UNCHANGED requests
    /\ \E validation \in {validateTrade(trade)} :
       LET existingTrades == orEmpty(kvGet(kv, "trades"))
       IN  IF ~validation.valid
           THEN /\ failAt = 0
                /\ last' = response("createTrade", trade, 400,
                                    [error |-> "Invalid trade data", errors |-> validation.errors])
                /\ UNCHANGED kv
           ELSE /\ Len(existingTrades) + 1 <= MaxTrades
                /\ IF failAt # 0
                   THEN /\ last' = response("createTrade", trade, 500,
                                            [error |-> "Failed to create trade"])
                        /\ UNCHANGED kv
                   ELSE \E created \in {newTrade(trade)} :
                        /\ kv' = kvSet(kv, "trades", <<created>> \o existingTrades)
                        /\ last' = response("createTrade", trade, 200,
                                            [success |-> TRUE, trade |-> created])

\* POST /trades: the store is read and then written (two calls) when the
\* trade is valid.
CreateTrade(trade, failAt) ==
    /\ failAt <= 2
    /\ UNCHANGED requests
    /\ \E validation \in {validateTrade(trade)} :
       LET existingTrades == orEmpty(kvGet(kv, "trades"))
       IN  IF ~validation.valid
           THEN /\ failAt = 0
                /\ last' = response("createTrade", trade, 400,
                                    [error |-> "Invalid trade data", errors |-> validation.errors])
                /\ UNCHANGED kv
           ELSE /\ Len(existingTrades) + 1 <= MaxTrades
                /\ IF failAt # 0
                   THEN /\ last' = response("createTrade", trade, 500,
                                            [error |-> "Failed to create trade"])
                        /\ UNCHANGED kv
                   ELSE \E created \in {newTrade(trade)} :
                        /\ kv' = kvSet(kv, "trades", Append(existingTrades, created))
                        /\ last' = response("createTrade", trade, 200,
                                            [success |-> TRUE, trade |-> created])

\* A faulty GET /trades that stores the page it shows as the collection.
ListTradesStoringPage(q, failAt) ==
    /\ failAt <= 1
    /\ UNCHANGED requests
    /\ IF failAt # 0
       THEN /\ last' = response("listTrades", q, 500, [error |-> "Failed to fetch trades"])
            /\ UNCHANGED kv
       ELSE \E body \in {listTrades(orEmpty(kvGet(kv, "trades")), q)} :
            /\ last' = response("listTrades", q, 200, body)
            /\ kv' = kvSet(kv, "trades", body.trades)

\* GET /trades
ListTrades(q, failAt) ==
    /\ failAt <= 1
    /\ UNCHANGED <<kv, requests>>
    /\ last' = IF failAt # 0
               THEN response("listTrades", q, 500, [error |-> "Failed to fetch trades"])
               ELSE response("listTrades", q, 200, listTrades(orEmpty(kvGet(kv, "trades")), q))

\* A POST /market-prices/upload without the check of rows.length: a file
\* without data lines replaces the collection with an empty one.
UploadMarketPricesWithoutRows(file, failAt) ==
    /\ failAt <= 1
    /\ UNCHANGED requests
    /\ IF file.t = "undefined"
       THEN /\ failAt = 0
            /\ last' = response("uploadMarketPrices", file, 400, [error |-> "No file provided"])
            /\ UNCHANGED kv
       ELSE \E rows \in {priceFileRows[file]} :
            IF failAt # 0
            THEN /\ last' = response("uploadMarketPrices", file, 500,
                                     [error |-> "Failed to upload market prices"])
                 /\ UNCHANGED kv
            ELSE \E prices \in {newPrices(rows)} :
                 /\ kv' = kvSet(kv, "market_prices", prices)
                 /\ last' = response("uploadMarketPrices", file, 200,
                                     [success |-> TRUE, count |-> Len(prices)])

\* POST /market-prices/upload: one store call, the write.
UploadMarketPrices(file, failAt) ==
    /\ failAt <= 1
    /\ UNCHANGED requests
    /\ IF file.t = "undefined"
       THEN /\ failAt = 0
            /\ last' = response("uploadMarketPrices", file, 400, [error |-> "No file provided"])
            /\ UNCHANGED kv
       ELSE \E rows \in {priceFileRows[file]} :
            IF Len(rows) = 0
            THEN /\ failAt = 0
                 /\ last' = response("uploadMarketPrices", file, 400,
                                     [error |-> "CSV file is empty or invalid"])
                 /\ UNCHANGED kv
            ELSE IF failAt # 0
            THEN /\ last' = response("uploadMarketPrices", file, 500,
                                     [error |-> "Failed to upload market prices"])
                 /\ UNCHANGED kv
            ELSE \E prices \in {newPrices(rows)} :
                 /\ kv' = kvSet(kv, "market_prices", prices)
                 /\ last' = response("uploadMarketPrices", file, 200,
                                     [success |-> TRUE, count |-> Len(prices)])

\* A DELETE /trades without its catch block: a rejected store call leaves the
\* request without a response.
ClearTradesUncaught(failAt) ==
    /\ failAt <= 1
    /\ UNCHANGED requests
    /\ IF failAt # 0
       THEN /\ last' = response("clearTrades", Undefined, 0, [thrown |-> TRUE])
            /\ UNCHANGED kv
       ELSE /\ kv' = kvSet(kv, "trades", <<>>)
            /\ last' = response("clearTrades", Undefined, 200, [success |-> TRUE])

\* DELETE /trades
ClearTrades(failAt) ==
    /\ failAt <= 1
    /\ UNCHANGED requests
    /\ IF failAt # 0
       THEN /\ last' = response("clearTrades", Undefined, 500,
                                [error |-> "Failed to clear trades"])
            /\ UNCHANGED kv
       ELSE /\ kv' = kvSet(kv, "trades", <<>>)
            /\ last' = response("clearTrades", Undefined, 200, [success |-> TRUE])

\* DELETE /market-prices
ClearMarketPrices(failAt) ==
    /\ failAt <= 1
    /\ UNCHANGED requests
    /\ IF failAt # 0
       THEN /\ last' = response("clearMarketPrices", Undefined, 500,
                                [error |-> "Failed to clear market prices"])
            /\ UNCHANGED kv
       ELSE /\ kv' = kvSet(kv, "market_prices", <<>>)
            /\ last' = response("clearMarketPrices", Undefined, 200, [success |-> TRUE])

\* A faulty DELETE /all-data that leaves the prices.
ClearAllKeepingPrices(failAt) ==
    /\ failAt <= 1
    /\ UNCHANGED requests
    /\ IF failAt # 0
       THEN /\ last' = response("clearAll", Undefined, 500,
                                [error |-> "Failed to clear all data"])
            /\ UNCHANGED kv
       ELSE /\ kv' = kvSet(kv, "trades", <<>>)
            /\ last' = response("clearAll", Undefined, 200, [success |-> TRUE])

\* DELETE /all-data: the trades are cleared before the prices, so a rejected
\* second call leaves the first one done.
ClearAll(failAt) ==
    /\ UNCHANGED requests
    /\ CASE failAt = 0 ->
            /\ kv' = kvSet(kvSet(kv, "trades", <<>>), "market_prices", <<>>)
            /\ last' = response("clearAll", Undefined, 200, [success |-> TRUE])
      [] failAt = 1 ->
            /\ UNCHANGED kv
            /\ last' = response("clearAll", Undefined, 500,
                                [error |-> "Failed to clear all data"])
      [] OTHER ->
            /\ kv' = kvSet(kv, "trades", <<>>)
            /\ last' = response("clearAll", Undefined, 500,
                                [error |-> "Failed to clear all data"])

\* A GET /pnl that writes the trades it filtered back to the store.
ComputePnLStoringFiltered(q, failAt) ==
    /\ failAt <= 2
    /\ UNCHANGED requests
    /\ IF failAt # 0
       THEN /\ last' = response("computePnL", q, 500, [error |-> "Failed to calculate P&L"])
            /\ UNCHANGED kv
       ELSE /\ last' = response("computePnL", q, 200,
                                computePnL(orEmpty(kvGet(kv, "trades")),
                                           orEmpty(kvGet(kv, "market_prices")), q))
            /\ kv' = kvSet(kv, "trades", filteredTrades(orEmpty(kvGet(kv, "trades")), q))

\* GET /pnl: two store calls, both reads.
ComputePnL(q, failAt) ==
    /\ failAt <= 2
    /\ UNCHANGED <<kv, requests>>
    /\ last' = IF failAt # 0
               THEN response("computePnL", q, 500, [error |-> "Failed to calculate P&L"])
               ELSE response("computePnL", q, 200,
                             computePnL(orEmpty(kvGet(kv, "trades")),
                                        orEmpty(kvGet(kv, "market_prices")), q))

\* GET /market-prices
ListMarketPrices(failAt) ==
    /\ failAt <= 1
    /\ UNCHANGED <<kv, requests>>
    /\ last' = IF failAt # 0
               THEN response("listMarketPrices", Undefined, 500,
                             [error |-> "Failed to fetch market prices"])
               ELSE response("listMarketPrices", Undefined, 200,
                             [prices |-> orEmpty(kvGet(kv, "market_prices"))])

\* GET /instruments
ListInstruments(failAt) ==
    /\ failAt <= 1
    /\ UNCHANGED <<kv, requests>>
    /\ last' = IF failAt # 0
               THEN response("listInstruments", Undefined, 500,
                             [error |-> "Failed to fetch instruments"])
               ELSE response("listInstruments", Undefined, 200,
                             [instruments |-> listInstruments(orEmpty(kvGet(kv, "trades")))])

\* GET /traders
ListTraders(failAt) ==
    /\ failAt <= 1
    /\ UNCHANGED <<kv, requests>>
    /\ last' = IF failAt # 0
               THEN response("listTraders", Undefined, 500,
                             [error |-> "Failed to fetch traders"])
               ELSE response("listTraders", Undefined, 200,
                             [traders |-> listTraders(orEmpty(kvGet(kv, "trades")))])

\* GET /health: one read, whose value is not used.  The time of the answer is
\* left out of the body.
Health(failAt) ==
    /\ failAt <= 1
    /\ UNCHANGED <<kv, requests>>
    /\ last' = IF failAt # 0
               THEN response("health", Undefined, 500,
                             [success |-> FALSE, error |-> "Database connection failed"])
               ELSE response("health", Undefined, 200,
                             [success |-> TRUE, message |-> "Database connection healthy"])

\* GET /stats: two store calls, both reads.
GetStats(failAt) ==
    /\ failAt <= 2
    /\ UNCHANGED <<kv, requests>>
    /\ last' = IF failAt # 0
               THEN response("getStats", Undefined, 500, [error |-> "Failed to fetch stats"])
               ELSE response("getStats", Undefined, 200,
                             getStats(orEmpty(kvGet(kv, "trades")),
                                      orEmpty(kvGet(kv, "market_prices"))))

FailPoints == 0..2

Next ==
    \/ \E file \in TradeFiles, failAt \in FailPoints : UploadTrades(file, failAt)
    \/ \E trade \in TradeBodies, failAt \in FailPoints : CreateTrade(trade, failAt)
    \/ \E in \in ListInputs : ListTrades(in[1], in[2])
    \/ \E q \in SomePnLQueries, failAt \in FailPoints : ComputePnL(q, failAt)
    \/ \E file \in PriceFiles, failAt \in FailPoints : UploadMarketPrices(file, failAt)
    \/ \E failAt \in FailPoints : ListMarketPrices(failAt)
    \/ \E failAt \in FailPoints : ListInstruments(failAt)
    \/ \E failAt \in FailPoints : ListTraders(failAt)
    \/ \E failAt \in FailPoints : ClearTrades(failAt)
    \/ \E failAt \in FailPoints : ClearMarketPrices(failAt)
    \/ \E failAt \in FailPoints : ClearAll(failAt)
    \/ \E failAt \in FailPoints : Health(failAt)
    \/ \E failAt \in FailPoints : GetStats(failAt)

Spec == Init /\ [][Next]_vars

\* GET /pnl and GET /trades over the collections of PnLTradeStores and
\* PnLPriceStores.
emptyStore == [trades |-> Absent, market_prices |-> Absent]

PnLTradeStores ==
    {emptyStore, kvSet(emptyStore, "trades", <<>>)}
    \cup {kvSet(emptyStore, "trades", tradesUploaded(c)) : c \in PnLTradeFileLines}

PnLStores ==
    PnLTradeStores
    \cup {kvSet(store, "market_prices", <<>>) : store \in PnLTradeStores}
    \cup {kvSet(store, "market_prices", pricesUploaded(c)) :
             store \in PnLTradeStores, c \in PnLPriceFileLines}

InitPnL ==
    /\ kv \in PnLStores
    /\ last = response("none", Undefined, 0, [none |-> TRUE])
    /\ requests = <<>>

NextPnL ==
    \/ \E q \in PnLQueries, failAt \in FailPoints : ComputePnL(q, failAt)
    \/ \E q \in PnLQueries : ListTrades(q, 0)

SpecPnL == InitPnL /\ [][NextPnL]_vars

----------------------------------------------------------------------------
(* Requests served side by side.  A handler runs from one await of a store  *)
(* call to the next without interruption; between two store calls of one    *)
(* request the store calls of others may come.  A request in requests has   *)
(* its handler (op), its input (req), the store call it waits for (pc:      *)
(* "get", "set", or "done" when it has answered), the value of its local    *)
(* existingTrades, and its response.  readAt and wroteAt are bookkeeping:   *)
(* the places of its two store calls in the order of all store calls.       *)

\* More requests than this are not taken.
MaxRequests == 2

ConcurrentInputs ==
    {[op |-> "uploadTrades", req |-> Str(csvText(headerTrades, tradeLines, c))] :
        c \in {<<1>>, <<3, 1>>, <<5>>}}
    \cup {[op |-> "createTrade", req |-> body] : body \in {bodyWithoutTrader, emptyBody}}

noResponse == response("none", Undefined, 0, [none |-> TRUE])

\* validTrades of POST /trades/upload, [newTrade] of POST /trades
validTradesOf(op, req) ==
    IF op = "uploadTrades" THEN tradeFileParts[req].validTrades ELSE <<newTrade(req)>>

\* The response of a handler that returns before its first store call, and
\* noResponse for one that goes on to read the trades.
answerBeforeStore(op, req) ==
    IF op = "uploadTrades"
    THEN IF req.t = "undefined"
         THEN response(op, req, 400, [error |-> "No file provided"])
         ELSE IF Len(tradeFileRows[req]) = 0
         THEN response(op, req, 400, [error |-> "CSV file is empty or invalid"])
         ELSE IF Len(tradeFileParts[req].validTrades) = 0
         THEN response(op, req, 200,
                       [success |-> TRUE, validCount |-> 0,
                        invalidCount |-> Len(tradeFileParts[req].invalidTrades),
                        invalidTrades |-> slice(tradeFileParts[req].invalidTrades,
                                                0, InvalidShown)])
         ELSE noResponse
    ELSE IF op = "createTrade"
    THEN With(validateTrade(req), LAMBDA validation :
             IF ~validation.valid
             THEN response(op, req, 400,
                           [error |-> "Invalid trade data", errors |-> validation.errors])
             ELSE noResponse)
    ELSE IF op = "uploadMarketPrices"
    THEN IF req.t = "undefined"
         THEN response(op, req, 400, [error |-> "No file provided"])
         ELSE IF Len(priceFileRows[req]) = 0
         THEN response(op, req, 400, [error |-> "CSV file is empty or invalid"])
         ELSE noResponse
    ELSE noResponse

\* The first store call of each handler
firstCall(op) ==
    CASE op \in {"uploadTrades", "createTrade"} -> "get"
      [] op = "uploadMarketPrices" -> "setPrices"
      [] op \in {"clearTrades", "clearAll"} -> "clearTrades"
      [] op = "clearMarketPrices" -> "clearPrices"

\* The response after the write
answerAfterSet(op, req) ==
    IF op = "uploadTrades"
    THEN response(op, req, 200,
                  [success |-> TRUE,
                   validCount |-> Len(tradeFileParts[req].validTrades),
                   invalidCount |-> Len(tradeFileParts[req].invalidTrades),
                   invalidTrades |-> slice(tradeFileParts[req].invalidTrades,
                                           0, InvalidShown)])
    ELSE response(op, req, 200, [success |-> TRUE, trade |-> newTrade(req)])

\* The response of the catch block
answerOfCatch(op, req) ==
    IF op = "uploadTrades"
    THEN response(op, req, 500, [error |-> "Failed to upload trades"])
    ELSE response(op, req, 500, [error |-> "Failed to create trade"])

\* The number of store calls that have returned
storeCalls ==
    Cardinality({i \in 1..Len(requests) : requests[i].readAt > 0})
        + Cardinality({i \in 1..Len(requests) : requests[i].wroteAt > 0})
        + Cardinality({i \in 1..Len(requests) : requests[i].wrotePricesAt > 0})

InitConcurrent ==
    /\ kv \in {emptyStore, kvSet(emptyStore, "trades", tradesUploaded(<<4>>))}
    /\ last = noResponse
    /\ requests = <<>>

\* A request arrives and its handler runs up to its first store call.
Receive(in) ==
    /\ Len(requests) < MaxRequests
    /\ UNCHANGED kv
    /\ \E answer \in {answerBeforeStore(in.op, in.req)} :
          /\ requests' = Append(requests,
                 [op |-> in.op, req |-> in.req,
                  pc |-> IF answer = noResponse THEN firstCall(in.op) ELSE "done",
                  existingTrades |-> <<>>, response |-> answer,
                  readAt |-> 0, wroteAt |-> 0, wrotePricesAt |-> 0])
          /\ last' = IF answer = noResponse THEN last ELSE answer

\* const existingTrades = await kv.get('trades') || []
GetTrades(i, rejected) ==
    /\ i <= Len(requests)
    /\ requests[i].pc = "get"
    /\ UNCHANGED kv
    /\ IF rejected
       THEN \E answer \in {answerOfCatch(requests[i].op, requests[i].req)} :
            /\ requests' = [requests EXCEPT ![i].pc = "done", ![i].response = answer]
            /\ last' = answer
       ELSE /\ requests' = [requests EXCEPT ![i].pc = "set",
                                            ![i].existingTrades = orEmpty(kvGet(kv, "trades")),
                                            ![i].readAt = storeCalls + 1]
            /\ UNCHANGED last

\* A write that adds the valid trades to what the store holds at the write.
SetTradesAddingToStored(i, rejected) ==
    /\ i <= Len(requests)
    /\ requests[i].pc = "set"
    /\ IF rejected
       THEN \E answer \in {answerOfCatch(requests[i].op, requests[i].req)} :
            /\ requests' = [requests EXCEPT ![i].pc = "done", ![i].response = answer]
            /\ last' = answer
            /\ UNCHANGED kv
       ELSE \E answer \in {answerAfterSet(requests[i].op, requests[i].req)} :
            /\ kv' = kvSet(kv, "trades",
                           allTrades(orEmpty(kvGet(kv, "trades")),
                                     validTradesOf(requests[i].op, requests[i].req)))
            /\ requests' = [requests EXCEPT ![i].pc = "done", ![i].response = answer,
                                            ![i].wroteAt = storeCalls + 1]
            /\ last' = answer

\* await kv.set('trades', [...existingTrades, ...validTrades]), and the
\* response that follows it
SetTrades(i, rejected) ==
    /\ i <= Len(requests)
    /\ requests[i].pc = "set"
    /\ IF rejected
       THEN \E answer \in {answerOfCatch(requests[i].op, requests[i].req)} :
            /\ requests' = [requests EXCEPT ![i].pc = "done", ![i].response = answer]
            /\ last' = answer
            /\ UNCHANGED kv
       ELSE \E answer \in {answerAfterSet(requests[i].op, requests[i].req)} :
            /\ kv' = kvSet(kv, "trades",
                           allTrades(requests[i].existingTrades,
                                     validTradesOf(requests[i].op, requests[i].req)))
            /\ requests' = [requests EXCEPT ![i].pc = "done", ![i].response = answer,
                                            ![i].wroteAt = storeCalls + 1]
            /\ last' = answer

NextConcurrent ==
    \/ \E in \in ConcurrentInputs : Receive(in)
    \/ \E i \in 1..MaxRequests, rejected \in BOOLEAN : GetTrades(i, rejected)
    \/ \E i \in 1..MaxRequests, rejected \in BOOLEAN : SetTrades(i, rejected)

SpecConcurrent == InitConcurrent /\ [][NextConcurrent]_vars

----------------------------------------------------------------------------
(* Uploads, creates and clears whose store calls interleave *)

\* A price upload that adds its rows to the stored ones.
SetPricesAddingToStored(i, rejected) ==
    /\ i <= Len(requests)
    /\ requests[i].pc = "setPrices"
    /\ IF rejected
       THEN \E answer \in {response(requests[i].op, requests[i].req, 500,
                                    [error |-> "Failed to upload market prices"])} :
            /\ requests' = [requests EXCEPT ![i].pc = "done", ![i].response = answer]
            /\ last' = answer
            /\ UNCHANGED kv
       ELSE \E prices \in {newPrices(priceFileRows[requests[i].req])} :
            \E answer \in {response(requests[i].op, requests[i].req, 200,
                                    [success |-> TRUE, count |-> Len(prices)])} :
            /\ kv' = kvSet(kv, "market_prices", orEmpty(kvGet(kv, "market_prices")) \o prices)
            /\ requests' = [requests EXCEPT ![i].pc = "done", ![i].response = answer,
                                            ![i].wrotePricesAt = storeCalls + 1]
            /\ last' = answer

\* await kv.set('market_prices', prices) of POST /market-prices/upload, and the
\* response that follows it
SetPrices(i, rejected) ==
    /\ i <= Len(requests)
    /\ requests[i].pc = "setPrices"
    /\ IF rejected
       THEN \E answer \in {response(requests[i].op, requests[i].req, 500,
                                    [error |-> "Failed to upload market prices"])} :
            /\ requests' = [requests EXCEPT ![i].pc = "done", ![i].response = answer]
            /\ last' = answer
            /\ UNCHANGED kv
       ELSE \E prices \in {newPrices(priceFileRows[requests[i].req])} :
            \E answer \in {response(requests[i].op, requests[i].req, 200,
                                    [success |-> TRUE, count |-> Len(prices)])} :
            /\ kv' = kvSet(kv, "market_prices", prices)
            /\ requests' = [requests EXCEPT ![i].pc = "done", ![i].response = answer,
                                            ![i].wrotePricesAt = storeCalls + 1]
            /\ last' = answer

\* A clear that answers without having written.
SetTradesEmptyWithoutSet(i, rejected) ==
    /\ i <= Len(requests)
    /\ requests[i].pc = "clearTrades"
    /\ UNCHANGED kv
    /\ IF rejected
       THEN \E answer \in {response(requests[i].op, requests[i].req, 500,
                                    [error |-> IF requests[i].op = "clearAll"
                                               THEN "Failed to clear all data"
                                               ELSE "Failed to clear trades"])} :
            /\ requests' = [requests EXCEPT ![i].pc = "done", ![i].response = answer]
            /\ last' = answer
       ELSE IF requests[i].op = "clearAll"
            THEN /\ requests' = [requests EXCEPT ![i].pc = "clearPrices",
                                                 ![i].wroteAt = storeCalls + 1]
                 /\ UNCHANGED last
            ELSE \E answer \in {response(requests[i].op, requests[i].req, 200,
                                         [success |-> TRUE])} :
                 /\ requests' = [requests EXCEPT ![i].pc = "done",
                                                 ![i].response = answer,
                                                 ![i].wroteAt = storeCalls + 1]
                 /\ last' = answer

\* await kv.set('trades', []) of DELETE /trades and of DELETE /all-data; the
\* first answers after it, the second goes on to clear the prices.
SetTradesEmpty(i, rejected) ==
    /\ i <= Len(requests)
    /\ requests[i].pc = "clearTrades"
    /\ IF rejected
       THEN \E answer \in {response(requests[i].op, requests[i].req, 500,
                                    [error |-> IF requests[i].op = "clearAll"
                                               THEN "Failed to clear all data"
                                               ELSE "Failed to clear trades"])} :
            /\ requests' = [requests EXCEPT ![i].pc = "done", ![i].response = answer]
            /\ last' = answer
            /\ UNCHANGED kv
       ELSE /\ kv' = kvSet(kv, "trades", <<>>)
            /\ IF requests[i].op = "clearAll"
               THEN /\ requests' = [requests EXCEPT ![i].pc = "clearPrices",
                                                    ![i].wroteAt = storeCalls + 1]
                    /\ UNCHANGED last
               ELSE \E answer \in {response(requests[i].op, requests[i].req, 200,
                                            [success |-> TRUE])} :
                    /\ requests' = [requests EXCEPT ![i].pc = "done",
                                                    ![i].response = answer,
                                                    ![i].wroteAt = storeCalls + 1]
                    /\ last' = answer

\* await kv.set('market_prices', []) of DELETE /market-prices and of DELETE
\* /all-data, and the response that follows it
SetPricesEmpty(i, rejected) ==
    /\ i <= Len(requests)
    /\ requests[i].pc = "clearPrices"
    /\ IF rejected
       THEN \E answer \in {response(requests[i].op, requests[i].req, 500,
                                    [error |-> IF requests[i].op = "clearAll"
                                               THEN "Failed to clear all data"
                                               ELSE "Failed to clear market prices"])} :
            /\ requests' = [requests EXCEPT ![i].pc = "done", ![i].response = answer]
            /\ last' = answer
            /\ UNCHANGED kv
       ELSE \E answer \in {response(requests[i].op, requests[i].req, 200,
                                    [success |-> TRUE])} :
            /\ kv' = kvSet(kv, "market_prices", <<>>)
            /\ requests' = [requests EXCEPT ![i].pc = "done", ![i].response = answer,
                                            ![i].wrotePricesAt = storeCalls + 1]
            /\ last' = answer

\* The requests: an upload of a valid row, an upload of an invalid and a valid
\* row, a valid and an invalid createTrade, two price files and a price file
\* without rows, and the three clears.
ClearingInputs ==
    {[op |-> "uploadTrades", req |-> Str(csvText(headerTrades, tradeLines, c))] :
        c \in {<<1>>, <<5, 1>>}}
    \cup {[op |-> "createTrade", req |-> body] : body \in {bodyWithoutTrader, emptyBody}}
    \cup {[op |-> "uploadMarketPrices", req |-> Str(csvText(headerPrices, priceLines, c))] :
            c \in {<<>>, <<1, 2>>, <<3, 1>>}}
    \cup {[op |-> op, req |-> Undefined] : op \in {"clearTrades", "clearMarketPrices", "clearAll"}}

\* The store is empty, or holds a trade and the prices of an earlier upload.
InitClearing ==
    /\ kv \in {emptyStore,
                kvSet(kvSet(emptyStore, "trades", tradesUploaded(<<4>>)),
                      "market_prices", pricesUploaded(<<2, 1>>))}
    /\ last = noResponse
    /\ requests = <<>>

NextClearing ==
    \/ \E in \in ClearingInputs : Receive(in)
    \/ \E i \in 1..MaxRequests, rejected \in BOOLEAN : GetTrades(i, rejected)
    \/ \E i \in 1..MaxRequests, rejected \in BOOLEAN : SetTrades(i, rejected)
    \/ \E i \in 1..MaxRequests, rejected \in BOOLEAN : SetPrices(i, rejected)
    \/ \E i \in 1..MaxRequests, rejected \in BOOLEAN : SetTradesEmpty(i, rejected)
    \/ \E i \in 1..MaxRequests, rejected \in BOOLEAN : SetPricesEmpty(i, rejected)

SpecClearing == InitClearing /\ [][NextClearing]_vars

----------------------------------------------------------------------------
(* What the inputs of the model must give, written out line by line          *)

\* The data lines of tradeLines that pass validation.
validLines == {1, 2, 3, 4}

\* The trade each valid line of tradeLines must be stored as.
expectedTrades ==
    << [trade_id |-> Str(<<"A","2">>), trade_date |-> Str(<<"2","0","2","4","-","0","1","-","0","2">>), trader |-> Str(<<"A","l">>),
        instrument |-> Str(<<"W","T","I">>), side |-> Str(<<"B","U","Y">>),
        quantity |-> Num(10, 0), trade_price |-> Num(75, 1), currency |-> Str(<<"U","S","D">>)],
       [trade_id |-> Str(<<"Y","1">>), trade_date |-> Str(<<"2","0","2","4","-","0","1","-","0","1">>), trader |-> Str(<<"U","n","k","n","o","w","n">>),
        instrument |-> Str(<<"B","r","e","n","t">>), side |-> Str(<<"S","E","L","L">>),
        quantity |-> Num(5, 0), trade_price |-> Num(8, 0), currency |-> Str(<<"U","S","D">>)],
       [trade_id |-> Str(<<"X">>), trade_date |-> Str(<<"2","0","2","4","-","0","1","-","0","3">>), trader |-> Str(<<"B","o">>),
        instrument |-> Str(<<"w","t","i">>), side |-> Str(<<"S","E","L","L">>),
        quantity |-> Num(3, 0), trade_price |-> Num(9, 0), currency |-> Str(<<"E","U","R">>)],
       [trade_id |-> Str(<<"T","2">>), trade_date |-> Str(<<"2","0","2","4","-","0","1","-","0","2">>), trader |-> Str(<<"A","l">>),
        instrument |-> Str(<<"W","T","I">>), side |-> Str(<<"B","U","Y">>),
        quantity |-> Num(1, 0), trade_price |-> Num(2, 0), currency |-> Str(<<"U","S","D">>)] >>

\* The price each line of priceLines must be stored as: the third has a close
\* price that is no number.
expectedPrices ==
    << [instrument |-> Str(<<"W","T","I">>), price_date |-> Str(<<"2","0","2","4","-","0","1","-","0","5">>), close_price |-> Num(76, 0)],
       [instrument |-> Str(<<"W","T","I">>), price_date |-> Str(<<"2","0","2","4","-","0","1","-","0","4">>), close_price |-> Num(755, 1)],
       [instrument |-> Str(<<"B","r","e","n","t">>), price_date |-> Str(<<"2","0","2","4","-","0","1","-","0","5">>), close_price |-> NaN] >>

\* The data lines a file of the model was made of.
tradeLinesOf(file) ==
    CHOOSE c \in TradeFileLines : file = Str(csvText(headerTrades, tradeLines, c))

priceLinesOf(file) ==
    CHOOSE c \in PriceFileLines : file = Str(csvText(headerPrices, priceLines, c))

expectedValid(file) ==
    With(SelectSeq(tradeLinesOf(file), LAMBDA i : i \in validLines), LAMBDA c :
        [k \in 1..Len(c) |-> expectedTrades[c[k]]])

uploaded(state) == state.op = "uploadTrades" /\ state.status = 200

----------------------------------------------------------------------------
(* Properties *)

\* C1: a successful uploadTrades leaves the trade collection equal to what it
\* was before followed by the normalized valid rows of the file in file order;
\* with no valid row the collection is exactly what it was; the market-price
\* collection is unchanged.
C1_UploadAppendsValidRows ==
    [][uploaded(last') =>
          /\ orEmpty(kv'.trades) = orEmpty(kv.trades) \o expectedValid(last'.req)
          /\ expectedValid(last'.req) = <<>> => kv'.trades = kv.trades
          /\ kv'.market_prices = kv.market_prices]_vars

\* A file with a valid row has been appended to a collection that was not empty.
C1_Witness ==
    /\ uploaded(last)
    /\ last.body.validCount >= 1
    /\ Len(orEmpty(kv.trades)) > last.body.validCount

\* C2: a successful uploadMarketPrices leaves the price collection equal to
\* the rows of the file in file order, whatever it held before; the reported
\* count is the number of rows; the trade collection is unchanged.
C2_PriceUploadReplaces ==
    [][(last'.op = "uploadMarketPrices" /\ last'.status = 200) =>
          With(priceLinesOf(last'.req), LAMBDA c :
              /\ kv'.market_prices.present
              /\ kv'.market_prices.rows = [k \in 1..Len(c) |-> expectedPrices[c[k]]]
              /\ last'.body.count = Len(c)
              /\ kv'.trades = kv.trades)]_vars

\* A price file has been stored whose first row has no numeric close price.
C2_Witness ==
    /\ last.op = "uploadMarketPrices" /\ last.status = 200
    /\ last.body.count = 2
    /\ kv.market_prices.rows # <<>>
    /\ isNaN(kv.market_prices.rows[1].close_price)

\* The row and the error list each invalid line of tradeLines must be
\* reported with.
expectedInvalid ==
    (5 :> [row |-> (k_trade_id :> Str(<<>>)) @@
                (k_trade_date :> Str(<<"2","0","2","4","-","0","1","-","0","1">>)) @@
                (k_trader :> Str(<<"A","l">>)) @@
                (k_instrument :> Str(<<"W","T","I">>)) @@
                (k_side :> Str(<<"H","O","L","D">>)) @@
                (k_quantity :> Str(<<"a","b","c">>)) @@
                (k_trade_price :> Str(<<"7">>)) @@
                (k_currency :> Str(<<"U","S","D">>)),
           errors |-> <<"trade_id is required", "side must be BUY or SELL",
                        "quantity must be a valid number">>]) @@
    (6 :> [row |-> (k_trade_id :> Str(<<"T","9">>)) @@
                (k_trade_date :> Str(<<>>)) @@
                (k_trader :> Str(<<"A","l">>)) @@
                (k_instrument :> Str(<<"W","T","I">>)) @@
                (k_side :> Str(<<"B","U","Y">>)) @@
                (k_quantity :> Str(<<"1">>)) @@
                (k_trade_price :> Str(<<"x">>)) @@
                (k_currency :> Undefined),
           errors |-> <<"trade_date is required",
                        "trade_price must be a valid number">>])

expectedInvalidOf(file) ==
    With(SelectSeq(tradeLinesOf(file), LAMBDA i : i \notin validLines), LAMBDA c :
        [k \in 1..Len(c) |-> expectedInvalid[c[k]]])

\* The last n elements of a sequence
lastOf(seq, n) == SubSeq(seq, Len(seq) - n + 1, Len(seq))

\* C3: uploadTrades puts every row of the file in exactly one of the two
\* groups and goes on after an invalid row: validCount + invalidCount is the
\* number of rows, and the valid rows, those after an invalid row included,
\* are the trades at the end of the stored collection.
C3_EveryRowEvaluated ==
    uploaded(last) =>
        With(tradeLinesOf(last.req), LAMBDA c :
        With(expectedValid(last.req), LAMBDA valid :
            /\ last.body.validCount = Len(valid)
            /\ last.body.invalidCount = Cardinality({k \in 1..Len(c) : c[k] \notin validLines})
            /\ last.body.validCount + last.body.invalidCount = Len(c)
            /\ lastOf(orEmpty(kv.trades), Len(valid)) = valid))

\* The long file has been uploaded: its one valid row, the last of the file,
\* is stored.
C3_Witness ==
    /\ uploaded(last)
    /\ last.body.invalidCount = ManyInvalid
    /\ last.body.validCount = 1
    /\ lastOf(orEmpty(kv.trades), 1) = <<expectedTrades[3]>>

\* C4: the response of uploadTrades carries the first invalid rows of the
\* file, at most InvalidShown of them, in file order, each with its row and
\* its errors, and invalidCount counts all the invalid rows.
C4_InvalidRowsCapped ==
    uploaded(last) =>
        With(expectedInvalidOf(last.req), LAMBDA invalid :
            /\ last.body.invalidCount = Len(invalid)
            /\ Len(last.body.invalidTrades) = (IF Len(invalid) < 10 THEN Len(invalid) ELSE 10)
            /\ last.body.invalidTrades = SubSeq(invalid, 1, Len(last.body.invalidTrades)))

\* More invalid rows than the response carries
C4_Witness ==
    /\ uploaded(last)
    /\ last.body.invalidCount > 10
    /\ Len(last.body.invalidTrades) = 10

----------------------------------------------------------------------------
(* validateTrade on its own: the records it is given, and the step that      *)
(* applies it                                                               *)

\* For each field a rule looks at, the values a record may have there, each
\* marked with whether the rule for that field is violated by it.
fieldChoices ==
    (k_trade_id :> { [v |-> Undefined, bad |-> TRUE], [v |-> Str(<<>>), bad |-> TRUE],
                     [v |-> Str(<<"T","1">>), bad |-> FALSE] }) @@
    (k_trade_date :> { [v |-> Undefined, bad |-> TRUE],
                       [v |-> Str(<<"2","0","2","4","-","0","1","-","0","2">>), bad |-> FALSE] }) @@
    (k_instrument :> { [v |-> Str(<<>>), bad |-> TRUE],
                       [v |-> Str(<<"W","T","I">>), bad |-> FALSE] }) @@
    (k_side :> { [v |-> Undefined, bad |-> TRUE], [v |-> Str(<<"h","o","l","d">>), bad |-> TRUE],
                 [v |-> Str(<<"s","e","l","l">>), bad |-> FALSE] }) @@
    (k_quantity :> { [v |-> Undefined, bad |-> TRUE], [v |-> Str(<<"a","b","c">>), bad |-> TRUE],
                     [v |-> Str(<<"1","0">>), bad |-> FALSE], [v |-> Str(<<"-","2",".","5">>), bad |-> FALSE],
                     [v |-> Str(<<"0">>), bad |-> FALSE], [v |-> Num(0, 0), bad |-> TRUE],
                     [v |-> Str(<<"I","n","f","i","n","i","t","y">>), bad |-> FALSE] }) @@
    (k_trade_price :> { [v |-> Undefined, bad |-> TRUE], [v |-> Str(<<"x">>), bad |-> TRUE],
                        [v |-> Str(<<"7",".","5">>), bad |-> FALSE], [v |-> Num(0, 0), bad |-> TRUE],
                        [v |-> Str(<<"-","I","n","f","i","n","i","t","y">>), bad |-> FALSE] })

\* The fields in the order of their rules, and the message of each rule.
ruleFields ==
    <<k_trade_id, k_trade_date, k_instrument, k_side, k_quantity, k_trade_price>>

ruleMessages ==
    <<"trade_id is required", "trade_date is required", "instrument is required",
      "side must be BUY or SELL", "quantity must be a valid number",
      "trade_price must be a valid number">>

ValidateInputs ==
    { (k_trade_id :> a.v) @@ (k_trade_date :> b.v) @@ (k_instrument :> c.v) @@
      (k_side :> d.v) @@ (k_quantity :> e.v) @@ (k_trade_price :> f.v) :
        a \in fieldChoices[k_trade_id], b \in fieldChoices[k_trade_date],
        c \in fieldChoices[k_instrument], d \in fieldChoices[k_side],
        e \in fieldChoices[k_quantity], f \in fieldChoices[k_trade_price] }

InitValidate ==
    /\ kv = [trades |-> Absent, market_prices |-> Absent]
    /\ requests = <<>>
    /\ \E trade \in ValidateInputs : last = response("input", trade, 0, [none |-> TRUE])

ValidateTrade ==
    /\ last.op = "input"
    /\ last' = response("validateTrade", last.req, 0, validateTrade(last.req))
    /\ UNCHANGED <<kv, requests>>

NextValidate == ValidateTrade

SpecValidate == InitValidate /\ [][NextValidate]_vars

\* The rule for a field is violated by the value the record has there.
violated(trade, field) == \E c \in fieldChoices[field] : c.v = trade[field] /\ c.bad

\* C5: validateTrade applies each of its six rules whatever the others
\* found: the errors are the messages of exactly the violated rules, one for
\* each, in rule order, and valid says that there is none.
C5_OneErrorPerViolatedRule ==
    last.op = "validateTrade" =>
        With(SelectSeq([i \in 1..6 |-> i], LAMBDA i : violated(last.req, ruleFields[i])),
             LAMBDA broken :
                 /\ last.body.errors = [k \in 1..Len(broken) |-> ruleMessages[broken[k]]]
                 /\ Len(last.body.errors) = Len(broken)
                 /\ last.body.valid <=> (last.body.errors = <<>>))

\* A record that violates four rules at once, the first and the last of them
C5_Witness ==
    /\ last.op = "validateTrade"
    /\ Len(last.body.errors) = 4
    /\ violated(last.req, k_trade_id)
    /\ violated(last.req, k_trade_price)
    /\ ~last.body.valid

listed(state) == state.op = "listTrades" /\ state.status = 200

\* The query has no filter and asks for the first page, which holds them all.
unfilteredAll(state) ==
    /\ state.req.from = Undefined /\ state.req.to = Undefined
    /\ state.req.instrument = Undefined /\ state.req.trader = Undefined
    /\ state.body.pagination.page = 1
    /\ state.body.pagination.limit >= state.body.pagination.total

\* How many times an element occurs in a sequence
occurrences(seq, x) == Cardinality({i \in 1..Len(seq) : seq[i] = x})

\* C6: a listTrades with no filter and a limit that holds them all, right
\* after a successful uploadTrades, shows every valid row of the file as the
\* normalized trade: same trade_id, trade_date and instrument, side in upper
\* case, quantity and trade_price as numbers, trader 'Unknown' and currency
\* 'USD' where the file gave none.
C6_UploadListRoundTrip ==
    [][(uploaded(last) /\ listed(last') /\ unfilteredAll(last')) =>
          With(expectedValid(last.req), LAMBDA valid :
              \A k \in 1..Len(valid) :
                  occurrences(last'.body.trades, valid[k]) >= occurrences(valid, valid[k]))]_vars

\* A full listing that shows the trade of the row without trader and currency
C6_Witness ==
    /\ listed(last) /\ unfilteredAll(last)
    /\ occurrences(last.body.trades, expectedTrades[2]) >= 1
    /\ expectedTrades[2].trader = Str(s_Unknown)
    /\ expectedTrades[2].currency = Str(s_USD)

\* The trade_ids of the trades of the model that each filter value of the
\* model lets through: on or after 2024-01-02, on or before 2024-01-02,
\* instrument containing "wt" and trader containing "AL", whatever the case.
id_A2 == Str(<<"A","2">>)

id_Y1 == Str(<<"Y","1">>)

id_X == Str(<<"X">>)

id_T2 == Str(<<"T","2">>)

fromPassed == {id_A2, id_X, id_T2}

toPassed == {id_A2, id_Y1, id_T2}

instrumentPassed == {id_A2, id_X, id_T2}

traderPassed == {id_A2, id_T2}

passes(trade, q) ==
    /\ q.from = Undefined \/ trade.trade_id \in fromPassed
    /\ q.to = Undefined \/ trade.trade_id \in toPassed
    /\ q.instrument = Undefined \/ trade.trade_id \in instrumentPassed
    /\ q.trader = Undefined \/ trade.trade_id \in traderPassed

storedTrades == orEmpty(kv.trades)

\* C7: listTrades selects a stored trade exactly when it passes the four
\* conditions of the query: total is the number of stored trades that pass,
\* every trade shown passes, and a page that holds them all shows each of
\* them as often as it is stored.
C7_FilterSelects ==
    listed(last) =>
        With(SelectSeq(storedTrades, LAMBDA t : passes(t, last.req)), LAMBDA selected :
            /\ last.body.pagination.total = Len(selected)
            /\ \A i \in 1..Len(last.body.trades) : passes(last.body.trades[i], last.req)
            /\ (last.body.pagination.page = 1
                /\ last.body.pagination.limit >= Len(selected)) =>
                   \A i \in 1..Len(storedTrades) :
                       occurrences(last.body.trades, storedTrades[i])
                           = occurrences(selected, storedTrades[i]))

\* A query with a date, an instrument and a trader filter that selects one of
\* two stored trades
C7_Witness ==
    /\ listed(last)
    /\ last.req.from # Undefined /\ last.req.instrument # Undefined
    /\ last.req.trader # Undefined
    /\ Len(storedTrades) = 2
    /\ last.body.pagination.total = 1

\* The integer left of each trade_id of the model when its non-digits are
\* taken away (the id X has no digit), and the place of each id in lexical
\* order.
keyOf == (id_A2 :> 2) @@ (id_Y1 :> 1) @@ (id_T2 :> 2)

lexRank == (id_A2 :> 1) @@ (id_T2 :> 2) @@ (id_X :> 3) @@ (id_Y1 :> 4)

hasDigits(trade) == trade.trade_id \in DOMAIN keyOf

\* The response shows the whole filtered list on one page.
wholeList(state) ==
    /\ state.body.pagination.page = 1
    /\ state.body.pagination.limit >= state.body.pagination.total

withKey(seq, key) == SelectSeq(seq, LAMBDA t : hasDigits(t) /\ keyOf[t.trade_id] = key)

reversed(seq) == [i \in 1..Len(seq) |-> seq[Len(seq) + 1 - i]]

----------------------------------------------------------------------------
(* Pagination on its own: lists of every length up to MaxTotal, and the     *)
(* step that cuts the page a query asks for                                *)

\* The longest list that is paginated.
MaxTotal == 45

\* What page and limit may be in a query, with the number each stands for.
pageChoices ==
    (Str(<<"1">>) :> 1) @@ (Str(<<"2">>) :> 2) @@ (Str(<<"3">>) :> 3) @@ (Str(<<"4">>) :> 4)

limitChoices == (Str(<<"1">>) :> 1) @@ (Str(<<"2","0">>) :> 20)

PageInputs ==
    { [total |-> total,
       q |-> query(Undefined, Undefined, Undefined, Undefined, page, limit)] :
        total \in 0..MaxTotal,
        page \in {Undefined} \cup DOMAIN pageChoices,
        limit \in {Undefined} \cup DOMAIN limitChoices }

\* A list of the given length: its elements are their own positions.
itemList(total) == [i \in 1..total |-> i]

InitPages ==
    /\ kv = [trades |-> Absent, market_prices |-> Absent]
    /\ requests = <<>>
    /\ \E input \in PageInputs : last = response("input", input, 0, [none |-> TRUE])

Paginate ==
    /\ last.op = "input"
    /\ last' = response("pageOf", last.req, 200, pageOf(itemList(last.req.total), last.req.q))
    /\ UNCHANGED <<kv, requests>>

NextPages == Paginate

SpecPages == InitPages /\ [][NextPages]_vars

\* C9: the page shown is the part of the list from index (page-1)*limit up to
\* but not including (page-1)*limit + limit; total is the length of the list
\* and totalPages is total/limit rounded up; a page past the last is empty
\* (of 45 with limit 20, page 3 has 5, totalPages is 3 and page 4 has none);
\* without page or limit in the query, page is 1 and limit is 50.
C9_PageIsSliceOfList ==
    last.op = "pageOf" =>
        LET page == IF last.req.q.page = Undefined THEN 1 ELSE pageChoices[last.req.q.page]
            limit == IF last.req.q.limit = Undefined THEN 50
                     ELSE limitChoices[last.req.q.limit]
            total == last.req.total
            first == (page - 1) * limit
            size == IF total - first < 0 THEN 0
                    ELSE IF total - first < limit THEN total - first ELSE limit
            totalPages == last.body.pagination.totalPages
        IN  /\ last.body.trades = [k \in 1..size |-> first + k]
            /\ last.body.pagination.page = page
            /\ last.body.pagination.limit = limit
            /\ last.body.pagination.total = total
            /\ totalPages * limit >= total /\ (totalPages - 1) * limit < total
            /\ page > totalPages => last.body.trades = <<>>
            /\ (total = 45 /\ limit = 20 /\ page = 3) =>
                   (Len(last.body.trades) = 5 /\ totalPages = 3)
            /\ (total = 45 /\ limit = 20 /\ page = 4) => Len(last.body.trades) = 0

\* The third page of 45 with limit 20
C9_Witness ==
    /\ last.op = "pageOf"
    /\ last.req.total = 45
    /\ last.body.pagination.limit = 20 /\ last.body.pagination.page = 3
    /\ last.body.trades = <<41, 42, 43, 44, 45>>

\* C10: a listTrades that follows a listTrades with the same filters, page
\* and limit, nothing else having happened in between, gives the same trades
\* and the same pagination.
C10_ListTradesIdempotent ==
    [][(listed(last) /\ listed(last') /\ last'.req = last.req) =>
          /\ last'.body.trades = last.body.trades
          /\ last'.body.pagination = last.body.pagination]_vars

\* A second page that shows a trade: the call that is repeated
C10_Witness ==
    /\ listed(last)
    /\ last.body.pagination.page = 2
    /\ last.body.trades # <<>>
    /\ Len(storedTrades) = 2

----------------------------------------------------------------------------
(* GET /pnl *)

id_B7 == Str(<<"B","7">>)

\* The trades of pnlTradeLines whose instrument is the given one, letter for
\* letter.
exactPassed(instrument) ==
    CASE instrument = Str(<<"W","T","I">>) -> {id_A2, id_T2, id_B7}
      [] instrument = Str(<<"w","t","i">>) -> {id_X}
      [] OTHER -> {}

\* The trades GET /pnl must count for a query: B7 is dated before d_0102.
counted(trade, q) ==
    /\ q.from = Undefined \/ trade.trade_id \in fromPassed
    /\ q.to = Undefined \/ trade.trade_id \in toPassed \cup {id_B7}
    /\ q.instrument \in {Undefined, Str(<<>>)} \/ trade.trade_id \in exactPassed(q.instrument)

storedPrices == orEmpty(kv.market_prices)

pnlDone(state) == state.op = "computePnL" /\ state.status = 200

\* A valued trade without the two fields the valuation adds
asStored(v) ==
    [trade_id |-> v.trade_id, trade_date |-> v.trade_date, trader |-> v.trader,
     instrument |-> v.instrument, side |-> v.side, quantity |-> v.quantity,
     trade_price |-> v.trade_price, currency |-> v.currency]

hasPrice(trade) ==
    \E i \in 1..Len(storedPrices) : storedPrices[i].instrument = trade.instrument

\* C11: the trades of a computePnL result are the counted trades that have a
\* stored price of exactly their instrument, in their order; valuedTradeCount
\* is their number, tradeCount the number of counted trades, and the first is
\* at most the second.  With no stored price nothing is valued, totalPnL is 0
\* and dailyPnL is empty.
C11_ValuedTradesHaveAPrice ==
    pnlDone(last) =>
        LET filtered == SelectSeq(storedTrades, LAMBDA t : counted(t, last.req))
            priced == SelectSeq(filtered, hasPrice)
            body == last.body
        IN  /\ [i \in 1..Len(body.trades) |-> asStored(body.trades[i])] = priced
            /\ body.valuedTradeCount = Len(priced)
            /\ body.tradeCount = Len(filtered)
            /\ body.valuedTradeCount <= body.tradeCount
            /\ storedPrices = <<>> =>
                   /\ body.valuedTradeCount = 0
                   /\ body.totalPnL = Num(0, 0)
                   /\ body.dailyPnL = <<>>

\* Some counted trades are valued and a lower-case wti trade is not, although
\* WTI has a price.
C11_Witness ==
    /\ pnlDone(last)
    /\ 0 < last.body.valuedTradeCount
    /\ last.body.valuedTradeCount < last.body.tradeCount
    /\ \E i \in 1..Len(storedTrades) :
           /\ storedTrades[i].trade_id = id_X
           /\ counted(storedTrades[i], last.req)
           /\ ~hasPrice(storedTrades[i])
    /\ \E i \in 1..Len(storedPrices) : storedPrices[i].instrument = Str(<<"W","T","I">>)

\* The day of January 2024 a price line of pnlPriceLines is dated; 0 for the
\* line without a date.
priceDay(price) ==
    CASE price.price_date = Str(<<"2","0","2","4","-","0","1","-","0","3">>) -> 3
      [] price.price_date = Str(<<"2","0","2","4","-","0","1","-","0","4">>) -> 4
      [] price.price_date = Str(<<"2","0","2","4","-","0","1","-","0","5">>) -> 5
      [] price.price_date = Str(<<"2","0","2","4","-","0","1","-","0","6">>) -> 6
      [] OTHER -> 0

\* No stored price of the same instrument is dated later than this one, and
\* none is dated if this one is not.
isLatest(price) ==
    \A k \in 1..Len(storedPrices) :
        storedPrices[k].instrument = price.instrument
            => priceDay(storedPrices[k]) <= priceDay(price)

\* C12: the market_price of every valued trade is the close_price of a stored
\* price of the trade's instrument whose price_date is the greatest among the
\* stored prices of that instrument, whatever the price collection holds.
C12_LatestPriceUsed ==
    pnlDone(last) =>
        \A i \in 1..Len(last.body.trades) :
            \E k \in 1..Len(storedPrices) :
                /\ storedPrices[k].instrument = last.body.trades[i].instrument
                /\ storedPrices[k].close_price = last.body.trades[i].market_price
                /\ isLatest(storedPrices[k])

\* The same for the price collections in which every price has a date.
C12_LatestOfDatedPrices ==
    (\A k \in 1..Len(storedPrices) : priceDay(storedPrices[k]) > 0) => C12_LatestPriceUsed

\* A trade is valued from the price without a date, which is stored before a
\* dated price of its instrument.
C12_Witness ==
    /\ pnlDone(last)
    /\ \E i \in 1..Len(last.body.trades), j, k \in 1..Len(storedPrices) :
           /\ j < k
           /\ storedPrices[j].instrument = last.body.trades[i].instrument
           /\ storedPrices[k].instrument = last.body.trades[i].instrument
           /\ priceDay(storedPrices[j]) = 0
           /\ priceDay(storedPrices[k]) > 0
           /\ storedPrices[j].close_price = last.body.trades[i].market_price
           /\ storedPrices[k].close_price # last.body.trades[i].market_price

\* Ten times a price of the model, which has one decimal at most.
tenths(v) == v.m * (IF v.e = 0 THEN 10 ELSE 1)

\* (market price - trade price) * quantity, reckoned in tenths; no number
\* when the close price is none.
differenceTimesQuantity(v) ==
    IF v.market_price = NaN THEN NaN
    ELSE Num((tenths(v.market_price) - tenths(v.trade_price)) * v.quantity.m, 1)

\* C13: the mtm of every valued trade is (latest close_price - trade_price) *
\* quantity whatever its side: trades that differ in side alone get the same
\* mtm, and trade_price 75.50, quantity 1000 and close 76.00 give 500.
C13_MtmIgnoresSide ==
    pnlDone(last) =>
        LET valued == last.body.trades
        IN  /\ \A i \in 1..Len(valued) :
                   /\ valued[i].mtm = differenceTimesQuantity(valued[i])
                   /\ ( /\ valued[i].trade_price = Num(755, 1)
                        /\ valued[i].quantity = Num(1000, 0)
                        /\ valued[i].market_price = Num(76, 0) )
                      => valued[i].mtm = Num(500, 0)
            /\ \A i, j \in 1..Len(valued) :
                   [asStored(valued[i]) EXCEPT !.side = valued[j].side] = asStored(valued[j])
                       => valued[i].mtm = valued[j].mtm

\* A BUY and a SELL trade of 1000 at 75.50 are both valued at 76.
C13_Witness ==
    /\ pnlDone(last)
    /\ \E i, j \in 1..Len(last.body.trades) :
           /\ last.body.trades[i].side = Str(s_BUY)
           /\ last.body.trades[j].side = Str(s_SELL)
           /\ [asStored(last.body.trades[i]) EXCEPT !.side = Str(s_SELL)]
                  = asStored(last.body.trades[j])
           /\ last.body.trades[i].trade_price = Num(755, 1)
           /\ last.body.trades[i].quantity = Num(1000, 0)
           /\ last.body.trades[i].market_price = Num(76, 0)
           /\ last.body.trades[j].mtm = Num(500, 0)

\* C14: the valuation has a direction, +1 for BUY and -1 for SELL: the mtm of
\* a BUY trade is (market price - trade price) * quantity and that of a SELL
\* trade (trade price - market price) * quantity.
C14_DirectionApplied ==
    pnlDone(last) =>
        \A i \in 1..Len(last.body.trades) :
            last.body.trades[i].mtm =
                IF last.body.trades[i].side = Str(s_SELL)
                THEN negate(differenceTimesQuantity(last.body.trades[i]))
                ELSE differenceTimesQuantity(last.body.trades[i])

\* A SELL trade of 3 at 9 is valued at 8.5, below its trade price, and its
\* mtm is -1.5.
C14_Witness ==
    /\ pnlDone(last)
    /\ \E i \in 1..Len(last.body.trades) :
           /\ last.body.trades[i].side = Str(s_SELL)
           /\ last.body.trades[i].quantity = Num(3, 0)
           /\ last.body.trades[i].trade_price = Num(9, 0)
           /\ last.body.trades[i].market_price = Num(85, 1)
           /\ last.body.trades[i].mtm = Num(-15, 1)

\* The day of January 2024 a trade of pnlTradeLines is dated.
tradeDay(date) ==
    CASE date = Str(<<"2","0","2","4","-","0","1","-","0","1">>) -> 1
      [] date = Str(<<"2","0","2","4","-","0","1","-","0","2">>) -> 2
      [] date = Str(<<"2","0","2","4","-","0","1","-","0","3">>) -> 3

RECURSIVE sumOf(_)
sumOf(numbers) ==
    IF numbers = <<>> THEN Num(0, 0)
    ELSE plus(sumOf(SubSeq(numbers, 1, Len(numbers) - 1)), numbers[Len(numbers)])

mtmsOf(valued) == [i \in 1..Len(valued) |-> valued[i].mtm]

pnlsOf(daily) == [i \in 1..Len(daily) |-> daily[i].pnl]

\* C15: totalPnL is the sum of the mtm of the valued trades; dailyPnL has one
\* entry for each trade_date of a valued trade and no other, the pnl of an
\* entry is the sum of the mtm of the valued trades of its date, the entries
\* ascend by date, and their pnl sum to totalPnL.
C15_TotalsAreSums ==
    pnlDone(last) =>
        LET valued == last.body.trades
            daily == last.body.dailyPnL
        IN  /\ last.body.totalPnL = sumOf(mtmsOf(valued))
            /\ {daily[i].date : i \in 1..Len(daily)}
                   = {valued[i].trade_date : i \in 1..Len(valued)}
            /\ \A i, j \in 1..Len(daily) :
                   i < j => tradeDay(daily[i].date) < tradeDay(daily[j].date)
            /\ \A i \in 1..Len(daily) :
                   daily[i].pnl =
                       sumOf(mtmsOf(SelectSeq(valued,
                                              LAMBDA v : v.trade_date = daily[i].date)))
            /\ sumOf(pnlsOf(daily)) = last.body.totalPnL

\* The same when the mtm of every valued trade is a number.
C15_SumsOfNumbers ==
    (pnlDone(last) /\ \A i \in 1..Len(last.body.trades) : last.body.trades[i].mtm # NaN)
        => C15_TotalsAreSums

\* Two trades of one date are valued, the first with a close price that is no
\* number: the pnl of the date is the mtm of the second, and totalPnL is no
\* number.
C15_Witness ==
    /\ pnlDone(last)
    /\ Len(last.body.trades) = 2
    /\ last.body.trades[1].trade_date = last.body.trades[2].trade_date
    /\ last.body.trades[1].mtm = NaN
    /\ last.body.trades[2].mtm = Num(500, 0)
    /\ last.body.dailyPnL = <<[date |-> last.body.trades[1].trade_date, pnl |-> Num(500, 0)]>>
    /\ last.body.totalPnL = NaN

\* The trades of pnlTradeLines whose instrument contains the given one when
\* case is set aside, and is not the given one.
nearMisses(instrument) ==
    CASE instrument = Str(<<"W","T","I">>) -> {id_X}
      [] instrument = Str(<<"w","t","i">>) -> {id_A2, id_T2, id_B7}
      [] instrument = Str(<<"w","t">>) -> {id_A2, id_X, id_T2, id_B7}
      [] OTHER -> {}

inDates(trade, q) ==
    /\ q.from = Undefined \/ trade.trade_id \in fromPassed
    /\ q.to = Undefined \/ trade.trade_id \in toPassed \cup {id_B7}

isIn(seq, x) == \E i \in 1..Len(seq) : seq[i] = x

\* C16: computePnL counts the stored trades within the date bounds whose
\* instrument is the filter letter for letter.  When computePnL follows a
\* listTrades of the same from, to and instrument (no trader, one page), it
\* counts no more trades than the list has and every trade it values is
\* listed, while a trade within the date bounds whose instrument contains the
\* filter or differs from it in case is listed and is neither counted nor
\* valued.
C16_ExactInstrumentFilter ==
    [][ (listed(last) /\ pnlDone(last') /\ last'.req = last.req) =>
          LET q == last.req
              nearMissed == SelectSeq(storedTrades,
                                LAMBDA t : inDates(t, q)
                                           /\ t.trade_id \in nearMisses(q.instrument))
              exact == SelectSeq(storedTrades, LAMBDA t : counted(t, q))
          IN  /\ last'.body.tradeCount = Len(exact)
              /\ last'.body.tradeCount <= last.body.pagination.total
              /\ \A i \in 1..Len(last'.body.trades) :
                     isIn(last.body.trades, asStored(last'.body.trades[i]))
              /\ \A i \in 1..Len(nearMissed) :
                     /\ isIn(last.body.trades, nearMissed[i])
                     /\ ~isIn(exact, nearMissed[i])
                     /\ \A k \in 1..Len(last'.body.trades) :
                            asStored(last'.body.trades[k]) # nearMissed[i]
              /\ last.body.pagination.total = Len(exact) + Len(nearMissed)
      ]_vars

\* computePnL with the instrument filter WTI counts the WTI trades and not the
\* stored wti trade, which has a price and lies within the date bounds.
C16_Witness ==
    /\ pnlDone(last)
    /\ last.req.instrument = Str(<<"W","T","I">>)
    /\ last.body.tradeCount > 0
    /\ \E i \in 1..Len(storedTrades) :
           /\ storedTrades[i].trade_id = id_X
           /\ inDates(storedTrades[i], last.req)
           /\ hasPrice(storedTrades[i])

----------------------------------------------------------------------------
(* GET /stats, GET /instruments, GET /traders *)

statsDone(state) == state.op = "getStats" /\ state.status = 200

\* How many stored trades have the id
storedWith(id) == Cardinality({i \in 1..Len(storedTrades) : storedTrades[i].trade_id = id})

\* The quantities of the four trades of tradeLines are 10, 5, 3 and 1, and
\* their quantities times their prices 75, 40, 27 and 2.
expectedVolume ==
    10 * storedWith(id_A2) + 5 * storedWith(id_Y1) + 3 * storedWith(id_X) + storedWith(id_T2)

expectedNotional ==
    75 * storedWith(id_A2) + 40 * storedWith(id_Y1) + 27 * storedWith(id_X)
        + 2 * storedWith(id_T2)

storedInstruments == {storedTrades[i].instrument : i \in 1..Len(storedTrades)}

storedTraders == {storedTrades[i].trader : i \in 1..Len(storedTrades)}

\* C17: getStats gives the number of stored trades, of their distinct
\* instruments and of their distinct traders, the sum of their quantities,
\* the sum of quantity times trade_price, and the number of stored prices;
\* listInstruments and listTraders give each distinct value once, so as many
\* values as getStats counts.
C17_StatsOverWholeCollections ==
    /\ statsDone(last) =>
           /\ last.body.totalTrades = Len(storedTrades)
           /\ last.body.uniqueInstruments = Cardinality(storedInstruments)
           /\ last.body.uniqueTraders = Cardinality(storedTraders)
           /\ last.body.totalVolume = Num(expectedVolume, 0)
           /\ last.body.totalNotional = Num(expectedNotional, 0)
           /\ last.body.marketPricesCount = Len(storedPrices)
    /\ (last.op = "listInstruments" /\ last.status = 200) =>
           /\ {last.body.instruments[i] : i \in 1..Len(last.body.instruments)}
                  = storedInstruments
           /\ Len(last.body.instruments) = Cardinality(storedInstruments)
    /\ (last.op = "listTraders" /\ last.status = 200) =>
           /\ {last.body.traders[i] : i \in 1..Len(last.body.traders)} = storedTraders
           /\ Len(last.body.traders) = Cardinality(storedTraders)

\* The counts of two stored trades of one instrument and one trader, with
\* prices stored.
C17_Witness ==
    /\ statsDone(last)
    /\ last.body.totalTrades = 2
    /\ last.body.uniqueInstruments = 1
    /\ last.body.uniqueTraders = 1
    /\ last.body.totalVolume = Num(11, 0)
    /\ last.body.totalNotional = Num(77, 0)
    /\ last.body.marketPricesCount = 2

----------------------------------------------------------------------------
(* DELETE /trades, /market-prices, /all-data *)

bothEmpty == storedTrades = <<>> /\ storedPrices = <<>>

succeeded(state, op) == state.op = op /\ state.status = 200

\* C18: a successful clearAll leaves both collections empty, whatever they
\* held; as long as they are empty (no upload or create has followed),
\* getStats gives 0 for its six numbers and listTrades gives no trade and
\* total 0, and leaves them empty.  A successful clearTrades empties the
\* trades and leaves the prices as they are, a successful clearMarketPrices
\* the other way round.
C18_ClearsEmptyTheCollections ==
    [][ /\ succeeded(last', "clearAll") => bothEmpty'
        /\ (bothEmpty /\ succeeded(last', "getStats")) =>
               /\ bothEmpty'
               /\ last'.body = [totalTrades |-> 0, uniqueInstruments |-> 0,
                                uniqueTraders |-> 0, totalVolume |-> Num(0, 0),
                                totalNotional |-> Num(0, 0), marketPricesCount |-> 0]
        /\ (bothEmpty /\ succeeded(last', "listTrades")) =>
               /\ bothEmpty'
               /\ last'.body.trades = <<>>
               /\ last'.body.pagination.total = 0
        /\ succeeded(last', "clearTrades") =>
               /\ storedTrades' = <<>>
               /\ kv'.market_prices = kv.market_prices
        /\ succeeded(last', "clearMarketPrices") =>
               /\ storedPrices' = <<>>
               /\ kv'.trades = kv.trades
      ]_vars

\* getStats gives six zeros for a store whose two collections have been
\* written empty.
C18_Witness ==
    /\ succeeded(last, "getStats")
    /\ last.body.totalTrades = 0
    /\ last.body.marketPricesCount = 0
    /\ last.body.totalVolume = Num(0, 0)
    /\ kv.trades = [present |-> TRUE, rows |-> <<>>]
    /\ kv.market_prices = [present |-> TRUE, rows |-> <<>>]

----------------------------------------------------------------------------
(* POST /trades *)

\* The errors each body of TradeBodies must get
expectedErrors(body) ==
    CASE body = tradeBody(Num(0, 0)) -> <<"quantity must be a valid number">>
      [] body = emptyBody -> ruleMessages
      [] OTHER -> <<>>

\* The trade each valid body of TradeBodies must be stored as: the fourth of
\* expectedTrades, and the second, whose trader and currency are the defaults.
expectedCreated(body) ==
    IF body = bodyWithoutTrader THEN expectedTrades[2] ELSE expectedTrades[4]

\* C20: a createTrade that answers 400 returns the errors of the record and
\* changes neither collection; one that answers 200 was given a record
\* without errors, stores the collection it found with the normalized trade
\* as one more, last, element, leaves the prices, and returns that trade.
C20_CreateTradeAppendsOne ==
    [][ /\ (last'.op = "createTrade" /\ last'.status = 400) =>
               /\ expectedErrors(last'.req) # <<>>
               /\ last'.body.errors = expectedErrors(last'.req)
               /\ kv' = kv
        /\ (last'.op = "createTrade" /\ last'.status = 200) =>
               /\ expectedErrors(last'.req) = <<>>
               /\ storedTrades' = Append(storedTrades, expectedCreated(last'.req))
               /\ kv'.market_prices = kv.market_prices
               /\ last'.body.trade = expectedCreated(last'.req)
      ]_vars

\* The record without trader and currency has been stored behind another
\* trade, with the defaults, and returned.
C20_Witness ==
    /\ succeeded(last, "createTrade")
    /\ last.req = bodyWithoutTrader
    /\ last.body.trade.trader = Str(s_Unknown)
    /\ last.body.trade.currency = Str(s_USD)
    /\ last.body.trade.side = Str(s_SELL)
    /\ last.body.trade.quantity = Num(5, 0)
    /\ Len(storedTrades) = 2
    /\ storedTrades[2] = last.body.trade
    /\ storedTrades[1] # last.body.trade

----------------------------------------------------------------------------
(* Requests served side by side *)

\* The trades a request of ConcurrentInputs must add
additions(r) ==
    IF r.op = "uploadTrades" THEN expectedValid(r.req) ELSE <<expectedCreated(r.req)>>

\* Both requests have read the trades before either has written them.
bothReadFirst(i, j) ==
    /\ requests[i].wroteAt > 0 /\ requests[j].wroteAt > 0
    /\ requests[i].readAt < requests[j].wroteAt
    /\ requests[j].readAt < requests[i].wroteAt

\* No store call has followed the write of the request.
wroteLast(j) == requests[j].wroteAt = storeCalls

\* C19: when an uploadTrades or createTrade has read the trades before
\* another one has written them and writes after it, both answer 200 and, as
\* long as no store call follows, the stored collection is what the later
\* writer read followed by its own valid trades: the trades the other one
\* added are not in it.
C19_LastWriteWins ==
    \A i, j \in 1..Len(requests) :
        (bothReadFirst(i, j) /\ requests[i].wroteAt < requests[j].wroteAt /\ wroteLast(j)) =>
            /\ requests[i].response.status = 200
            /\ requests[j].response.status = 200
            /\ storedTrades = requests[j].existingTrades \o additions(requests[j])
            /\ Len(additions(requests[i])) > 0
            /\ Len(storedTrades) < Len(requests[j].existingTrades)
                                      + Len(additions(requests[i]))
                                      + Len(additions(requests[j]))

\* An upload of two valid rows and a createTrade have both read the one
\* stored trade, the upload has written and then the createTrade: both have
\* answered 200 and two trades are stored, not four.
C19_Witness ==
    /\ Len(requests) = 2
    /\ requests[1].op = "uploadTrades"
    /\ requests[2].op = "createTrade"
    /\ bothReadFirst(1, 2)
    /\ requests[1].wroteAt < requests[2].wroteAt
    /\ wroteLast(2)
    /\ requests[1].response.status = 200
    /\ requests[1].response.body.validCount = 2
    /\ requests[2].response.status = 200
    /\ storedTrades = <<expectedTrades[4], expectedTrades[2]>>

----------------------------------------------------------------------------
(* Store failures *)

\* The message each operation must give when a store call is rejected
failureMessage(op) ==
    CASE op = "uploadTrades" -> "Failed to upload trades"
      [] op = "createTrade" -> "Failed to create trade"
      [] op = "listTrades" -> "Failed to fetch trades"
      [] op = "computePnL" -> "Failed to calculate P&L"
      [] op = "uploadMarketPrices" -> "Failed to upload market prices"
      [] op = "listMarketPrices" -> "Failed to fetch market prices"
      [] op = "listInstruments" -> "Failed to fetch instruments"
      [] op = "listTraders" -> "Failed to fetch traders"
      [] op = "getStats" -> "Failed to fetch stats"
      [] op = "clearTrades" -> "Failed to clear trades"
      [] op = "clearMarketPrices" -> "Failed to clear market prices"
      [] op = "clearAll" -> "Failed to clear all data"
      [] op = "health" -> "Database connection failed"

\* A success without an error, or a failure with one
structured(state) ==
    \/ state.status = 200 /\ "error" \notin DOMAIN state.body
    \/ state.status \in {400, 500} /\ "error" \in DOMAIN state.body

\* The step is the handler of the operation, run on the request, with the
\* given store call rejected.
handled(op, req, failAt) ==
    CASE op = "uploadTrades" -> UploadTrades(req, failAt)
      [] op = "createTrade" -> CreateTrade(req, failAt)
      [] op = "listTrades" -> ListTrades(req, failAt)
      [] op = "computePnL" -> ComputePnL(req, failAt)
      [] op = "uploadMarketPrices" -> UploadMarketPrices(req, failAt)
      [] op = "listMarketPrices" -> ListMarketPrices(failAt)
      [] op = "listInstruments" -> ListInstruments(failAt)
      [] op = "listTraders" -> ListTraders(failAt)
      [] op = "getStats" -> GetStats(failAt)
      [] op = "clearTrades" -> ClearTrades(failAt)
      [] op = "clearMarketPrices" -> ClearMarketPrices(failAt)
      [] op = "clearAll" -> ClearAll(failAt)
      [] op = "health" -> Health(failAt)

\* C21: every operation ends with a response that is a success or carries an
\* error; when its first or its second store call is rejected the response is
\* the error of the operation with status 500, and the handler makes no
\* further store call.
C21_StoreFailureGivesError ==
    [][ /\ structured(last')
        /\ \A failAt \in 1..2 :
               handled(last'.op, last'.req, failAt) =>
                   /\ last'.status = 500
                   /\ last'.body.error = failureMessage(last'.op)
      ]_vars

\* A createTrade whose store call was rejected has answered with its error.
C21_Witness ==
    /\ last = response("createTrade", tradeBody(Num(1, 0)), 500,
                       [error |-> "Failed to create trade"])
    /\ storedTrades # <<>>

----------------------------------------------------------------------------
(* parseCSV alone, on every short text over a small alphabet *)

MaxText == 5

CsvChars == {"a", "1", ",", "\n", " "}

CsvTexts == UNION {[1..n -> CsvChars] : n \in 0..MaxText}

InitParse ==
    /\ kv = [trades |-> Absent, market_prices |-> Absent]
    /\ requests = <<>>
    /\ \E text \in CsvTexts : last = response("input", Str(text), 0, [none |-> TRUE])

ParseCSV ==
    /\ last.op = "input"
    /\ last' = response("parseCSV", last.req, 0, [rows |-> parseCSV(last.req.s)])
    /\ UNCHANGED <<kv, requests>>

NextParse == ParseCSV

SpecParse == InitParse /\ [][NextParse]_vars

\* The positions of the text that hold neither a blank nor a line break
inked(text) == {p \in 1..Len(text) : text[p] \notin {" ", "\n"}}

firstInk(text) == IF inked(text) = {} THEN Len(text) + 1 ELSE -maxOf({-p : p \in inked(text)})

lastInk(text) == IF inked(text) = {} THEN 0 ELSE maxOf(inked(text))

\* The line of position p, counted from the first inked position
lineOf(text, p) == 1 + Cardinality({q \in firstInk(text)..(p - 1) : text[q] = "\n"})

\* The lines from the first inked position to the last
lineCount(text) == lineOf(text, lastInk(text))

\* The column of position p within its line
columnOf(text, p) ==
    1 + Cardinality({q \in firstInk(text)..(p - 1) :
                        text[q] = "," /\ lineOf(text, q) = lineOf(text, p)})

columns(text, line) ==
    1 + Cardinality({q \in firstInk(text)..lastInk(text) :
                        text[q] = "," /\ lineOf(text, q) = line})

\* s without the blanks at its ends
stripped(s) ==
    With({i \in 1..Len(s) : s[i] # " "}, LAMBDA ink :
        IF ink = {} THEN <<>> ELSE SubSeq(s, -maxOf({-i : i \in ink}), maxOf(ink)))

\* The field in the given line and column, without the blanks at its ends
field(text, line, column) ==
    With(SelectSeq([p \in 1..Len(text) |-> p],
                   LAMBDA p : /\ p >= firstInk(text) /\ p <= lastInk(text)
                              /\ text[p] \notin {",", "\n"}
                              /\ lineOf(text, p) = line
                              /\ columnOf(text, p) = column),
         LAMBDA at : stripped([k \in 1..Len(at) |-> text[at[k]]]))

\* The lines of the text as given: one for each line break, and one more for
\* what follows the last line break if anything does.
givenLines(text) ==
    Cardinality({q \in 1..Len(text) : text[q] = "\n"})
        + (IF text # <<>> /\ text[Len(text)] # "\n" THEN 1 ELSE 0)

\* C22 as stated: parseCSV gives one row for each line of the text after the
\* first, and no row for a text of fewer than two lines.
C22_RowForEveryLine ==
    last.op = "parseCSV" =>
        IF givenLines(last.req.s) < 2
        THEN last.body.rows = <<>>
        ELSE Len(last.body.rows) = givenLines(last.req.s) - 1

\* C22: with the lines counted from the first to the last character of the
\* text that is not white space, parseCSV gives no row for fewer than two
\* lines and otherwise one row for each line after the first, in line order;
\* the keys of a row are the header fields without the blanks at their ends,
\* the value under a header is the field at the header's position (the last
\* position, for a header that occurs more than once) without the blanks at
\* its ends, and undefined when the line has no field there.
C22_RowForEveryLineOfTrimmedText ==
    last.op = "parseCSV" =>
        \E text \in {last.req.s} : \E rows \in {last.body.rows} :
            IF lineCount(text) < 2
            THEN rows = <<>>
            ELSE /\ Len(rows) = lineCount(text) - 1
                 /\ \A i \in 1..Len(rows) :
                        /\ DOMAIN rows[i] = {field(text, 1, c) : c \in 1..columns(text, 1)}
                        /\ \A c \in 1..columns(text, 1) :
                               (\A d \in (c + 1)..columns(text, 1) :
                                    field(text, 1, d) # field(text, 1, c)) =>
                                   rows[i][field(text, 1, c)] =
                                       IF c <= columns(text, i + 1)
                                       THEN Str(field(text, i + 1, c))
                                       ELSE Undefined

\* A header of two fields and a line of one: one row with the second value
\* undefined.
C22_Witness ==
    /\ last.op = "parseCSV"
    /\ last.req.s = <<"a", ",", "1", "\n", "a">>
    /\ last.body.rows = << (<<"a">> :> Str(<<"a">>)) @@ (<<"1">> :> Undefined) >>

----------------------------------------------------------------------------
(* Finite numbers *)

\* The values of the records given to validateTrade that are present and
\* read as a finite number: 10, -2.5, 7.5, and 0 as a string and as a number.
FiniteValues ==
    { Str(<<"1","0">>), Str(<<"-","2",".","5">>), Str(<<"7",".","5">>),
      Str(<<"0">>), Num(0, 0) }

reports(state, message) ==
    \E k \in 1..Len(state.body.errors) : state.body.errors[k] = message

\* C23: validateTrade reports the quantity error exactly when quantity is
\* absent or does not read as a finite number, and the trade_price error
\* exactly when trade_price is absent or does not read as a finite number.
C23_FiniteNumberRequired ==
    last.op = "validateTrade" =>
        /\ reports(last, "quantity must be a valid number")
               <=> last.req[k_quantity] \notin FiniteValues
        /\ reports(last, "trade_price must be a valid number")
               <=> last.req[k_trade_price] \notin FiniteValues

\* A record whose quantity is 'Infinity' and whose price is the number 0 has
\* been validated: only the price is reported.
C23_Witness ==
    /\ last.op = "validateTrade"
    /\ last.req[k_quantity] = Str(<<"I","n","f","i","n","i","t","y">>)
    /\ last.req[k_trade_price] = Num(0, 0)
    /\ last.req[k_side] = Str(<<"s","e","l","l">>)
    /\ last.body.errors = <<"trade_price must be a valid number">>

----------------------------------------------------------------------------
(* Uploads without data *)

\* What an upload may find in body.file that has no data line: nothing, an
\* empty text, a header line, a header line and a line break.
FilesWithoutData ==
    { Undefined, Str(<<>>), Str(headerTrades), Str(headerPrices),
      Str(Append(headerPrices, "\n")) }

\* C24: an upload of trades or of prices that finds no file, or a text of
\* fewer than two lines, answers 400 with an error and leaves both
\* collections as they were.
C24_UploadWithoutDataWritesNothing ==
    [][ (/\ last'.op \in {"uploadTrades", "uploadMarketPrices"}
         /\ last'.req \in FilesWithoutData) =>
            /\ last'.status = 400
            /\ "error" \in DOMAIN last'.body
            /\ kv' = kv
      ]_vars

\* A header-only price file has been refused while prices are stored.
C24_Witness ==
    /\ last.op = "uploadMarketPrices"
    /\ last.req = Str(headerPrices)
    /\ last.status = 400
    /\ storedPrices # <<>>
    /\ storedTrades # <<>>

----------------------------------------------------------------------------
(* Store failures and partial effects *)

MutatingOperations ==
    { "uploadTrades", "createTrade", "uploadMarketPrices",
      "clearTrades", "clearMarketPrices", "clearAll" }

\* C25: whenever a mutating operation answers with an error, the trades and
\* the prices are what they were before the operation; a clearAll never
\* ends in an error with the trades cleared and the prices still there.
C25_ErrorLeavesStoreAsItWas ==
    [][ (last'.op \in MutatingOperations /\ last'.status \in {400, 500}) =>
            /\ storedTrades' = storedTrades
            /\ storedPrices' = storedPrices
      ]_vars

\* A clearAll has answered 500 after its first write: the trades are cleared
\* and both prices are still stored.
C25_Witness ==
    /\ last.op = "clearAll"
    /\ last.status = 500
    /\ kv.trades = [present |-> TRUE, rows |-> <<>>]
    /\ Len(storedPrices) = 2

----------------------------------------------------------------------------
(* Reads *)

ReadOperations ==
    { "listTrades", "computePnL", "getStats", "listInstruments", "listTraders",
      "listMarketPrices", "health" }

\* C27: a listTrades, computePnL, getStats, listInstruments, listTraders,
\* listMarketPrices or health check, answered with success or with an error,
\* leaves the store exactly as it was: the same trades in the same stored
\* order and the same prices.
C27_ReadsLeaveTheStore ==
    [][ last'.op \in ReadOperations => kv' = kv ]_vars

\* A listTrades has answered with the two stored trades in the other order:
\* it sorted the list it read, and the stored order is as before.
C27_Witness ==
    /\ listed(last)
    /\ unfilteredAll(last)
    /\ Len(storedTrades) = 2
    /\ last.body.trades = <<storedTrades[2], storedTrades[1]>>
    /\ storedTrades[1] # storedTrades[2]
    /\ storedPrices # <<>>

----------------------------------------------------------------------------
(* A client that asks for the pages of a list one after the other *)

WalkFileLines ==
    { <<>>, <<1>>, <<3, 1>>, <<1, 3, 4>>, <<3, 1, 2, 4>>, <<4, 2, 1, 3>>, <<1, 2, 1>> }

WalkStores ==
    {emptyStore} \cup {kvSet(emptyStore, "trades", tradesUploaded(c)) : c \in WalkFileLines}

WalkLimits == { Str(<<"1">>), Str(<<"2">>), Str(<<"3">>) }

MaxPages == 4

\* The page number as the query carries it
pageText(n) == Str(<<FromCharCode(48 + n)>>)

InitWalk ==
    /\ kv \in WalkStores
    /\ last = response("none", Undefined, 0, [none |-> TRUE])
    /\ requests = <<>>

\* GET /trades for the page after the ones already received, with the filters
\* and the limit of the walk; requests keeps the bodies received.
AskNextPage(f, limit) ==
    /\ Len(requests) < MaxPages
    /\ IF requests = <<>>
       THEN TRUE
       ELSE /\ <<last.req.from, last.req.to, last.req.instrument, last.req.trader>> = f
            /\ last.req.limit = limit
            /\ Len(requests) < last.body.pagination.totalPages
    /\ \E q \in {query(f[1], f[2], f[3], f[4], pageText(Len(requests) + 1), limit)} :
       \E body \in {listTrades(orEmpty(kvGet(kv, "trades")), q)} :
           /\ last' = response("listTrades", q, 200, body)
           /\ requests' = Append(requests, body)
    /\ UNCHANGED kv

NextWalk == \E f \in QueryFilters, limit \in WalkLimits : AskNextPage(f, limit)

SpecWalk == InitWalk /\ [][NextWalk]_vars

\* The trades of the first n pages, one page after the other
RECURSIVE pagesJoined(_, _)
pagesJoined(pages, n) ==
    IF n = 0 THEN <<>> ELSE pagesJoined(pages, n - 1) \o pages[n].trades

\* C28: in a walk through the pages of one query with a fixed limit of 1, 2
\* or 3, no page holds more than limit trades, every page before the last
\* holds exactly limit, and once page totalPages has been received the pages
\* 1..totalPages together hold every stored trade that passes the filters as
\* often as it is stored and no other trade, total of them in all.
C28_PagesPartitionTheList ==
    (requests # <<>> /\ listed(last)) =>
        \E p \in {last.body.pagination} :
        \E selected \in {SelectSeq(storedTrades, LAMBDA t : passes(t, last.req))} :
            /\ p.total = Len(selected)
            /\ \A k \in 1..Len(requests) :
                   /\ Len(requests[k].trades) <= p.limit
                   /\ k < p.totalPages => Len(requests[k].trades) = p.limit
                   /\ requests[k].pagination.totalPages = p.totalPages
            /\ Len(requests) >= p.totalPages =>
                   \E joined \in {pagesJoined(requests, p.totalPages)} :
                       /\ Len(joined) = p.total
                       /\ \A i \in 1..Len(storedTrades) :
                              occurrences(joined, storedTrades[i])
                                  = occurrences(selected, storedTrades[i])

\* Three of four stored trades pass an instrument filter and have been
\* received in a full page of two and a last page of one.
C28_Witness ==
    /\ listed(last)
    /\ last.req.instrument # Undefined
    /\ Len(storedTrades) = 4
    /\ Len(requests) = 2
    /\ last.body.pagination.totalPages = 2
    /\ Len(requests[1].trades) = 2
    /\ Len(requests[2].trades) = 1
    /\ requests[2].trades[1] \notin {requests[1].trades[1], requests[1].trades[2]}

----------------------------------------------------------------------------
(* Interleaved uploads, creates and clears *)

nonEmptyString(v) == v.t = "string" /\ v.s # <<>>

\* The trades the requests of the model may store: the rows A2 and T2 and the
\* created Y1.
StorableTrades == {expectedTrades[1], expectedTrades[4], expectedTrades[2]}

\* C26: in every state reached by uploads, creates, price uploads and clears
\* whose store calls interleave in any order, every stored trade has side
\* 'BUY' or 'SELL', non-empty trade_id, trade_date, instrument, trader and
\* currency, and a quantity and a trade_price that are numbers; the invalid
\* row of a file and the invalid body of a create are never among them.
C26_StoredTradesAreValid ==
    \A k \in 1..Len(storedTrades) :
        \E t \in {storedTrades[k]} :
            /\ t.side \in {Str(<<"B","U","Y">>), Str(<<"S","E","L","L">>)}
            /\ nonEmptyString(t.trade_id) /\ nonEmptyString(t.trade_date)
            /\ nonEmptyString(t.instrument)
            /\ nonEmptyString(t.trader) /\ nonEmptyString(t.currency)
            /\ t.quantity.t \in {"number", "Infinity"}
            /\ t.trade_price.t \in {"number", "Infinity"}
            /\ t \in StorableTrades

\* An upload with an invalid and a valid row and an invalid create have both
\* been answered, and the valid row alone is stored after the trade that was
\* there.
C26_Witness ==
    /\ Len(requests) = 2
    /\ requests[1].op = "uploadTrades"
    /\ requests[1].response.status = 200
    /\ requests[1].response.body.invalidCount = 1
    /\ requests[2].op = "createTrade"
    /\ requests[2].response.status = 400
    /\ storedTrades = <<expectedTrades[4], expectedTrades[1]>>

\* The rows of each price file of the model, and of the file the store may
\* hold at the start.
WholeUploads ==
    { <<expectedPrices[1], expectedPrices[2]>>,
      <<expectedPrices[3], expectedPrices[1]>>,
      <<expectedPrices[2], expectedPrices[1]>> }

\* C29: whatever the order of the store calls of price uploads and clears,
\* the stored prices are none or all the rows of one upload, in its order.
C29_PricesOfOneUpload ==
    storedPrices = <<>> \/ storedPrices \in WholeUploads

\* Two uploads of different files have both been answered, the one received
\* second having written first: the rows of the first are stored.
C29_Witness ==
    /\ Len(requests) = 2
    /\ requests[1].op = "uploadMarketPrices" /\ requests[2].op = "uploadMarketPrices"
    /\ requests[1].req # requests[2].req
    /\ requests[1].response.status = 200 /\ requests[2].response.status = 200
    /\ requests[2].wrotePricesAt < requests[1].wrotePricesAt
    /\ storedPrices = <<expectedPrices[1], expectedPrices[2]>>

\* The request is a clearTrades or clearAll that has answered with success.
cleared(i) ==
    /\ requests[i].op \in {"clearTrades", "clearAll"}
    /\ requests[i].response.status = 200

\* Request j is an upload or create that read the trades before clear i
\* wrote and wrote them after it.
staleWrite(i, j) ==
    /\ requests[j].op \in {"uploadTrades", "createTrade"}
    /\ requests[j].readAt > 0 /\ requests[j].wroteAt > 0
    /\ requests[j].readAt < requests[i].wroteAt
    /\ requests[i].wroteAt < requests[j].wroteAt

\* The trade is one that an upload or create has added by a write after
\* clear i.
submittedSince(i, trade) ==
    \E j \in 1..Len(requests) :
        /\ requests[j].op \in {"uploadTrades", "createTrade"}
        /\ requests[j].wroteAt > requests[i].wroteAt
        /\ \E k \in 1..Len(additions(requests[j])) : additions(requests[j])[k] = trade

\* C30 as stated: once a clearTrades or clearAll has answered with success,
\* every stored trade has been added by a write after the clear, whatever
\* the order of the store calls.
C30_ClearedTradesStayGone ==
    \A i \in 1..Len(requests) :
        cleared(i) =>
            \A k \in 1..Len(storedTrades) : submittedSince(i, storedTrades[k])

\* C30: once a clearTrades or clearAll has answered with success, and no
\* upload or create that read the trades before the clear has written after
\* it, every stored trade has been added by a write after the clear.
C30_ClearedTradesStayGoneWithoutStaleWrite ==
    \A i \in 1..Len(requests) :
        (cleared(i) /\ \A j \in 1..Len(requests) : ~staleWrite(i, j)) =>
            \A k \in 1..Len(storedTrades) : submittedSince(i, storedTrades[k])

\* An upload received before a clearTrades read the trades after the clear
\* had written: of the trade and the prices the store held at the start, the
\* prices are left and the uploaded row is the only trade.
C30_Witness ==
    /\ Len(requests) = 2
    /\ requests[1].op = "uploadTrades"
    /\ requests[2].op = "clearTrades"
    /\ cleared(2)
    /\ requests[1].readAt > requests[2].wroteAt
    /\ requests[1].response.status = 200
    /\ storedTrades = <<expectedTrades[1]>>
    /\ storedPrices # <<>>

====
